---------------------------- MODULE Spec2Model ----------------------------
(***************************************************************************)
(* Model of the tag parsing engine of excel-tags-parser-mongodb:           *)
(*   src/src/processor/tag_parser.py   (key normalizer, grammar parsers,   *)
(*                                      parse_tags, process_dataframe)     *)
(*   src/src/app.py                    (process_excel_file driver)         *)
(*                                                                         *)
(* A Python str is a sequence of one-character strings, so that every      *)
(* string operation of the source (strip, lower, title, replace, split,    *)
(* the regular expression, json.loads) is computed character by character. *)
(* A Python dict is a sequence of <<key, value>> pairs with distinct keys  *)
(* in insertion order.                                                     *)
(***************************************************************************)
EXTENDS Integers, Sequences, FiniteSets, TLC

(***************************************************************************)
(* Bounds of the model.                                                    *)
(***************************************************************************)
MaxKeyTokens == 3

MaxItems == 2

MaxChars == 3

\* data rows of a sheet
MaxRows == 2

\* rows per chunk
MaxChunk == 2

\* documents per insert_many batch
MaxBatch == 2

\* rows per batch of the Excel writer
MaxWriteBatch == 2

(***************************************************************************)
(* Python str primitives.                                                  *)
(***************************************************************************)
LowerChars ==
  <<"a","b","c","d","e","f","g","h","i","j","k","l","m",
    "n","o","p","q","r","s","t","u","v","w","x","y","z">>

UpperChars ==
  <<"A","B","C","D","E","F","G","H","I","J","K","L","M",
    "N","O","P","Q","R","S","T","U","V","W","X","Y","Z">>

Range(f) == { f[i] : i \in DOMAIN f }

IndexIn(c, chars) == CHOOSE i \in DOMAIN chars : chars[i] = c

IsLowerChar(c) == c \in Range(LowerChars)

IsUpperChar(c) == c \in Range(UpperChars)

\* str.isalpha() restricted to one cased character
IsCased(c) == IsLowerChar(c) \/ IsUpperChar(c)

LowerChar(c) == IF IsUpperChar(c) THEN LowerChars[IndexIn(c, UpperChars)] ELSE c

UpperChar(c) == IF IsLowerChar(c) THEN UpperChars[IndexIn(c, LowerChars)] ELSE c

\* the characters str.strip() removes and the regular expression's \s matches
IsSpace(c) == c \in {" ", "\t", "\n", "\r", "\f"}

\* str.lower()
Lower(s) == [i \in DOMAIN s |-> LowerChar(s[i])]

\* str.title(): a cased character is upper-cased when the character before it
\* is uncased (or there is none) and lower-cased otherwise
Title(s) ==
  [i \in DOMAIN s |->
     IF ~IsCased(s[i]) THEN s[i]
     ELSE IF i > 1 /\ IsCased(s[i-1]) THEN LowerChar(s[i])
     ELSE UpperChar(s[i])]

RECURSIVE LStrip(_)
LStrip(s) == IF s # <<>> /\ IsSpace(Head(s)) THEN LStrip(Tail(s)) ELSE s

RECURSIVE RStrip(_)
RStrip(s) ==
  IF s # <<>> /\ IsSpace(s[Len(s)]) THEN RStrip(SubSeq(s, 1, Len(s) - 1)) ELSE s

\* str.strip()
Strip(s) == RStrip(LStrip(s))

\* c in s
Contains(s, c) == \E i \in DOMAIN s : s[i] = c

\* s.startswith(c) and s.endswith(c) for a one-character c
StartsWith(s, c) == s # <<>> /\ s[1] = c

EndsWith(s, c) == s # <<>> /\ s[Len(s)] = c

\* s[1:-1]
Slice1m1(s) == IF Len(s) < 2 THEN <<>> ELSE SubSeq(s, 2, Len(s) - 1)

\* whether the string old occurs in s at position i
MatchAt(s, i, old) ==
  /\ i + Len(old) - 1 <= Len(s)
  /\ \A j \in DOMAIN old : s[i + j - 1] = old[j]

\* str.replace(old, new): left to right, non-overlapping (old is not empty)
RECURSIVE ReplaceFrom(_, _, _, _)
ReplaceFrom(s, i, old, new) ==
  IF i > Len(s) THEN <<>>
  ELSE IF MatchAt(s, i, old) THEN new \o ReplaceFrom(s, i + Len(old), old, new)
  ELSE <<s[i]>> \o ReplaceFrom(s, i + 1, old, new)

Replace(s, old, new) == ReplaceFrom(s, 1, old, new)

\* the concatenation of a sequence of strings
RECURSIVE Flatten(_)
Flatten(ss) == IF ss = <<>> THEN <<>> ELSE Head(ss) \o Flatten(Tail(ss))

(***************************************************************************)
(* Python dict: a sequence of <<key, value>> pairs, keys distinct, in      *)
(* insertion order.  d[k] = v keeps the position of an existing key.       *)
(***************************************************************************)
DictKeys(d) == { d[i][1] : i \in DOMAIN d }

DictHas(d, k) == \E i \in DOMAIN d : d[i][1] = k

DictGet(d, k) == d[CHOOSE i \in DOMAIN d : d[i][1] = k][2]

\* the assignment that keeps the value a key already has (dict.setdefault)
DictSet_keep_first(d, k, v) ==
  IF DictHas(d, k) THEN d ELSE Append(d, <<k, v>>)

DictSet(d, k, v) ==
  IF DictHas(d, k)
  THEN [i \in DOMAIN d |-> IF d[i][1] = k THEN <<k, v>> ELSE d[i]]
  ELSE Append(d, <<k, v>>)

(***************************************************************************)
(* Key normalizer: format_column_name                                      *)
(***************************************************************************)
sApplicationName == <<"A","p","p","l","i","c","a","t","i","o","n"," ","N","a","m","e">>
sEnvironment == <<"E","n","v","i","r","o","n","m","e","n","t">>
sOwner == <<"O","w","n","e","r">>
sCost == <<"C","o","s","t">>
sPrimaryContact == <<"P","r","i","m","a","r","y"," ","C","o","n","t","a","c","t">>
sUsage == <<"U","s","a","g","e">>
sCostCenter == <<"C","o","s","t"," ","C","e","n","t","e","r">>
sBusinessUnit == <<"B","u","s","i","n","e","s","s"," ","U","n","i","t">>
sDepartment == <<"D","e","p","a","r","t","m","e","n","t">>
sProject == <<"P","r","o","j","e","c","t">>
sTeam == <<"T","e","a","m">>

\* special_cases with one value capitalised inconsistently:
\* 'applicationname': 'Application name'
special_cases_typo ==
  << <<<<"a","p","p","l","i","c","a","t","i","o","n","n","a","m","e">>,
       <<"A","p","p","l","i","c","a","t","i","o","n"," ","n","a","m","e">>>>,
     <<<<"a","p","p","l","i","c","a","t","i","o","n"," ","n","a","m","e">>, sApplicationName>>,
     <<<<"e","n","v">>, sEnvironment>>,
     <<<<"e","n","v","i","r","o","n","m","e","n","t">>, sEnvironment>>,
     <<<<"o","w","n","e","r">>, sOwner>>,
     <<<<"c","o","s","t">>, sCost>>,
     <<<<"p","r","i","m","a","r","y","c","o","n","t","a","c","t">>, sPrimaryContact>>,
     <<<<"p","r","i","m","a","r","y"," ","c","o","n","t","a","c","t">>, sPrimaryContact>>,
     <<<<"u","s","a","g","e">>, sUsage>>,
     <<<<"c","o","s","t","c","e","n","t","e","r">>, sCostCenter>>,
     <<<<"c","o","s","t"," ","c","e","n","t","e","r">>, sCostCenter>>,
     <<<<"b","u","s","i","n","e","s","s","u","n","i","t">>, sBusinessUnit>>,
     <<<<"b","u","s","i","n","e","s","s"," ","u","n","i","t">>, sBusinessUnit>>,
     <<<<"d","e","p","a","r","t","m","e","n","t">>, sDepartment>>,
     <<<<"p","r","o","j","e","c","t">>, sProject>>,
     <<<<"t","e","a","m">>, sTeam>> >>

\* special_cases, in the order of the source
special_cases ==
  << <<<<"a","p","p","l","i","c","a","t","i","o","n","n","a","m","e">>, sApplicationName>>,
     <<<<"a","p","p","l","i","c","a","t","i","o","n"," ","n","a","m","e">>, sApplicationName>>,
     <<<<"e","n","v">>, sEnvironment>>,
     <<<<"e","n","v","i","r","o","n","m","e","n","t">>, sEnvironment>>,
     <<<<"o","w","n","e","r">>, sOwner>>,
     <<<<"c","o","s","t">>, sCost>>,
     <<<<"p","r","i","m","a","r","y","c","o","n","t","a","c","t">>, sPrimaryContact>>,
     <<<<"p","r","i","m","a","r","y"," ","c","o","n","t","a","c","t">>, sPrimaryContact>>,
     <<<<"u","s","a","g","e">>, sUsage>>,
     <<<<"c","o","s","t","c","e","n","t","e","r">>, sCostCenter>>,
     <<<<"c","o","s","t"," ","c","e","n","t","e","r">>, sCostCenter>>,
     <<<<"b","u","s","i","n","e","s","s","u","n","i","t">>, sBusinessUnit>>,
     <<<<"b","u","s","i","n","e","s","s"," ","u","n","i","t">>, sBusinessUnit>>,
     <<<<"d","e","p","a","r","t","m","e","n","t">>, sDepartment>>,
     <<<<"p","r","o","j","e","c","t">>, sProject>>,
     <<<<"t","e","a","m">>, sTeam>> >>

\* format_column_name with the table lookup made on the lower-cased, trimmed key
\* BEFORE the underscores are replaced (the two steps swapped)
format_column_name_lookup_first(key) ==
  LET key_lower == Replace(Strip(Lower(key)), <<"_">>, <<" ">>)
      key1      == Replace(key, <<"_">>, <<" ">>)
  IN  IF DictHas(special_cases, key_lower)
      THEN DictGet(special_cases, key_lower)
      ELSE Title(Strip(key1))

format_column_name(key) ==
  LET key1      == Replace(key, <<"_">>, <<" ">>)
      key_lower == Strip(Lower(key1))
  IN  IF DictHas(special_cases, key_lower)
      THEN DictGet(special_cases, key_lower)
      ELSE Title(Strip(key1))

(***************************************************************************)
(* Python values: the cells of a DataFrame and the values of a dict.       *)
(***************************************************************************)
PyNone == [kind |-> "None"]

PyNaN == [kind |-> "nan"]

PyInt(n) == [kind |-> "int", n |-> n]

PyStr(s) == [kind |-> "str", s |-> s]

\* pd.isna(v) for a scalar
IsNa(v) == v.kind \in {"None", "nan"}

Digits == <<"0","1","2","3","4","5","6","7","8","9">>

IsDigit(c) == c \in Range(Digits)

RECURSIVE NatToStr(_)
NatToStr(n) ==
  IF n < 10 THEN <<Digits[n + 1]>> ELSE NatToStr(n \div 10) \o <<Digits[(n % 10) + 1]>>

\* str(v) for a scalar (integers of the model are not negative)
ToStr(v) ==
  CASE v.kind = "str"  -> v.s
    [] v.kind = "None" -> <<"N","o","n","e">>
    [] v.kind = "nan"  -> <<"n","a","n">>
    [] v.kind = "int"  -> NatToStr(v.n)

(***************************************************************************)
(* str.split / re.split on single characters: every separator cuts, empty  *)
(* pieces are kept, the result has at least one piece.                     *)
(***************************************************************************)
RECURSIVE SplitFrom(_, _, _, _)
SplitFrom(s, i, seps, cur) ==
  IF i > Len(s) THEN <<cur>>
  ELSE IF s[i] \in seps THEN <<cur>> \o SplitFrom(s, i + 1, seps, <<>>)
  ELSE SplitFrom(s, i + 1, seps, Append(cur, s[i]))

SplitOn(s, seps) == SplitFrom(s, 1, seps, <<>>)

\* the least index >= i of s holding c, or 0
RECURSIVE Find(_, _, _)
Find(s, i, c) ==
  IF i > Len(s) THEN 0 ELSE IF s[i] = c THEN i ELSE Find(s, i + 1, c)

\* the least index >= i of s that holds no whitespace (Len(s) + 1 if none)
RECURSIVE SkipSpace(_, _)
SkipSpace(s, i) ==
  IF i <= Len(s) /\ IsSpace(s[i]) THEN SkipSpace(s, i + 1) ELSE i

(***************************************************************************)
(* _parse_escaped_key_value_format                                         *)
(***************************************************************************)
\* one attempt of the pattern "([^"]+)"\s*:\s*"([^"]*)" at position i
PairMatchAt(s, i) ==
  LET q2 == Find(s, i + 1, "\"")
      c  == SkipSpace(s, q2 + 1)
      q3 == SkipSpace(s, c + 1)
      q4 == Find(s, q3 + 1, "\"")
  IN  IF /\ i <= Len(s) /\ s[i] = "\""
         /\ q2 > i + 1
         /\ c <= Len(s) /\ s[c] = ":"
         /\ q3 <= Len(s) /\ s[q3] = "\""
         /\ q4 > 0
      THEN [ok |-> TRUE, key |-> SubSeq(s, i + 1, q2 - 1),
            value |-> SubSeq(s, q3 + 1, q4 - 1), end |-> q4]
      ELSE [ok |-> FALSE, key |-> <<>>, value |-> <<>>, end |-> i]

\* re.findall(pattern, s): the matches from left to right, not overlapping
RECURSIVE FindAllPairs(_, _)
FindAllPairs(s, i) ==
  IF i > Len(s) THEN <<>>
  ELSE LET m == PairMatchAt(s, i)
       IN  IF m.ok THEN <<<<m.key, m.value>>>> \o FindAllPairs(s, m.end + 1)
           ELSE FindAllPairs(s, i + 1)

RECURSIVE EscapedStore(_, _)
EscapedStore(matches, result) ==
  IF matches = <<>> THEN result
  ELSE LET key_raw     == Strip(Head(matches)[1])
           value_clean == Strip(Head(matches)[2])
           column_name == format_column_name(key_raw)
       IN  EscapedStore(Tail(matches), DictSet(result, column_name, PyStr(value_clean)))

\* the parser taking the first match only (re.search instead of re.findall)
parse_escaped_key_value_format_first(tag_string) ==
  IF FindAllPairs(tag_string, 1) = <<>> THEN <<>>
  ELSE EscapedStore(<<Head(FindAllPairs(tag_string, 1))>>, <<>>)

parse_escaped_key_value_format(tag_string) ==
  EscapedStore(FindAllPairs(tag_string, 1), <<>>)

(***************************************************************************)
(* _parse_key_value_format                                                 *)
(***************************************************************************)
\* the greatest index of s holding c, or 0
RECURSIVE FindLast(_, _)
FindLast(s, c) ==
  IF s = <<>> THEN 0
  ELSE IF s[Len(s)] = c THEN Len(s) ELSE FindLast(SubSeq(s, 1, Len(s) - 1), c)

\* the pair cut at its last ':' (rsplit) instead of its first
SplitLastColon(pair) ==
  LET c == FindLast(pair, ":")
  IN  <<SubSeq(pair, 1, c - 1), SubSeq(pair, c + 1, Len(pair))>>

\* pair.split(':', 1) of a pair that contains ':'
SplitFirstColon(pair) ==
  LET c == Find(pair, 1, ":")
  IN  <<SubSeq(pair, 1, c - 1), SubSeq(pair, c + 1, Len(pair))>>

\* the value with one layer of surrounding double quotes removed
Unquote(value) ==
  IF StartsWith(value, "\"") /\ EndsWith(value, "\"") THEN Slice1m1(value) ELSE value

RECURSIVE KeyValueStore(_, _)
KeyValueStore(pairs, result) ==
  IF pairs = <<>> THEN result
  ELSE LET pair == Strip(Head(pairs))
       IN  IF ~Contains(pair, ":") THEN KeyValueStore(Tail(pairs), result)
           ELSE LET kv          == SplitFirstColon(pair)
                    key_raw     == Strip(kv[1])
                    value       == Unquote(Strip(kv[2]))
                    column_name == format_column_name(key_raw)
                IN  KeyValueStore(Tail(pairs), DictSet(result, column_name, PyStr(value)))

parse_key_value_format(tag_string) ==
  KeyValueStore(SplitOn(tag_string, {",", ";"}), <<>>)

(***************************************************************************)
(* _parse_pipe_separated_format                                            *)
(***************************************************************************)
PipeFields == <<sApplicationName, sEnvironment, sOwner, sCost>>

\* the parser dropping the empty segments before it assigns by position
parse_pipe_separated_format_compact(tag_string) ==
  LET split == SplitOn(tag_string, {"|"})
      parts == SelectSeq([i \in DOMAIN split |-> Strip(split[i])], LAMBDA p : p # <<>>)
  IN  [i \in 1..4 |->
         <<PipeFields[i], IF Len(parts) >= i THEN PyStr(parts[i]) ELSE PyNone>>]

parse_pipe_separated_format(tag_string) ==
  LET split == SplitOn(tag_string, {"|"})
      parts == [i \in DOMAIN split |-> Strip(split[i])]
  IN  [i \in 1..4 |->
         <<PipeFields[i],
           IF Len(parts) >= i /\ parts[i] # <<>> THEN PyStr(parts[i]) ELSE PyNone>>]

(***************************************************************************)
(* json.loads, as far as the characters of the model reach: objects,       *)
(* strings with their escapes, integers and the literals.  A JSON value is *)
(* [t |-> "s", s |-> chars], [t |-> "lit", s |-> its str()] or             *)
(* [t |-> "o", items |-> dict].  No input of the model holds '[', a        *)
(* fraction or an exponent.                                                *)
(***************************************************************************)
IsJsonSpace(c) == c \in {" ", "\t", "\n", "\r"}

RECURSIVE JsonSkip(_, _)
JsonSkip(s, i) ==
  IF i <= Len(s) /\ IsJsonSpace(s[i]) THEN JsonSkip(s, i + 1) ELSE i

JsonFail == [ok |-> FALSE, val |-> <<>>, end |-> 0]

\* the backspace character
BS == "\\b"

IsControl(c) == c \in {"\t", "\n", "\r", "\f", BS}

IsHex(c) == IsDigit(c) \/ c \in {"a","b","c","d","e","f","A","B","C","D","E","F"}

\* the character a backslash escape of a JSON string stands for
JsonUnescape(e) ==
  CASE e = "b" -> BS
    [] e = "f" -> "\f"
    [] e = "n" -> "\n"
    [] e = "r" -> "\r"
    [] e = "t" -> "\t"
    [] OTHER   -> e

\* scanstring from position i, after the opening quote; end is the closing quote
RECURSIVE JsonScanString(_, _, _)
JsonScanString(s, i, acc) ==
  IF i > Len(s) THEN JsonFail
  ELSE IF s[i] = "\"" THEN [ok |-> TRUE, val |-> acc, end |-> i]
  ELSE IF IsControl(s[i]) THEN JsonFail
  ELSE IF s[i] # "\\" THEN JsonScanString(s, i + 1, Append(acc, s[i]))
  ELSE IF i + 1 > Len(s) THEN JsonFail
  ELSE IF s[i + 1] \in {"\"", "\\", "/", "b", "f", "n", "r", "t"}
       THEN JsonScanString(s, i + 2, Append(acc, JsonUnescape(s[i + 1])))
  ELSE IF s[i + 1] = "u" /\ i + 5 <= Len(s) /\ \A j \in 2..5 : IsHex(s[i + j])
       \* the code point, kept as one character named by its escape
       THEN JsonScanString(s, i + 6,
              Append(acc, "\\u" \o s[i + 2] \o s[i + 3] \o s[i + 4] \o s[i + 5]))
  ELSE JsonFail

\* the index of the last digit of the run of digits starting at i
RECURSIVE DigitsEnd(_, _)
DigitsEnd(s, i) ==
  IF i + 1 <= Len(s) /\ IsDigit(s[i + 1]) THEN DigitsEnd(s, i + 1) ELSE i

JsonLiterals ==
  << <<<<"n","u","l","l">>, <<"N","o","n","e">>>>,
     <<<<"t","r","u","e">>, <<"T","r","u","e">>>>,
     <<<<"f","a","l","s","e">>, <<"F","a","l","s","e">>>>,
     <<<<"N","a","N">>, <<"n","a","n">>>>,
     <<<<"I","n","f","i","n","i","t","y">>, <<"i","n","f">>>>,
     <<<<"-","I","n","f","i","n","i","t","y">>, <<"-","i","n","f">>>> >>

\* an integer -?(0|[1-9][0-9]*) at position i
JsonInteger(s, i) ==
  LET d == IF s[i] = "-" THEN i + 1 ELSE i
  IN  IF d > Len(s) \/ ~IsDigit(s[d]) THEN JsonFail
      ELSE LET e    == IF s[d] = "0" THEN d ELSE DigitsEnd(s, d)
               text == SubSeq(s, i, e)
           IN  [ok |-> TRUE,
                val |-> [t |-> "lit", s |-> IF text = <<"-","0">> THEN <<"0">> ELSE text],
                end |-> e]

RECURSIVE JsonValue(_, _)
RECURSIVE JsonMembers(_, _, _)

JsonObject(s, i) ==
  LET j == JsonSkip(s, i + 1)
  IN  IF j > Len(s) THEN JsonFail
      ELSE IF s[j] = "}" THEN [ok |-> TRUE, val |-> [t |-> "o", items |-> <<>>], end |-> j]
      ELSE IF s[j] # "\"" THEN JsonFail
      ELSE JsonMembers(s, j, <<>>)

\* the members of an object from the opening quote of a key at position j
JsonMembers(s, j, acc) ==
  LET key == JsonScanString(s, j + 1, <<>>)
  IN  IF ~key.ok THEN JsonFail
      ELSE LET k == JsonSkip(s, key.end + 1)
           IN  IF k > Len(s) \/ s[k] # ":" THEN JsonFail
               ELSE LET v == JsonValue(s, JsonSkip(s, k + 1))
                    IN  IF ~v.ok THEN JsonFail
                        ELSE LET m    == JsonSkip(s, v.end + 1)
                                 acc2 == DictSet(acc, key.val, v.val)
                             IN  IF m > Len(s) THEN JsonFail
                                 ELSE IF s[m] = "}"
                                      THEN [ok |-> TRUE, val |-> [t |-> "o", items |-> acc2],
                                            end |-> m]
                                 ELSE IF s[m] # "," THEN JsonFail
                                 ELSE LET n == JsonSkip(s, m + 1)
                                      IN  IF n > Len(s) \/ s[n] # "\"" THEN JsonFail
                                          ELSE JsonMembers(s, n, acc2)

\* scan_once at position i
JsonValue(s, i) ==
  IF i > Len(s) THEN JsonFail
  ELSE IF s[i] = "\"" THEN
         LET str == JsonScanString(s, i + 1, <<>>)
         IN  IF str.ok THEN [ok |-> TRUE, val |-> [t |-> "s", s |-> str.val], end |-> str.end]
             ELSE JsonFail
  ELSE IF s[i] = "{" THEN JsonObject(s, i)
  ELSE IF \E l \in DOMAIN JsonLiterals : MatchAt(s, i, JsonLiterals[l][1]) THEN
         LET l == CHOOSE l \in DOMAIN JsonLiterals : MatchAt(s, i, JsonLiterals[l][1])
         IN  [ok |-> TRUE, val |-> [t |-> "lit", s |-> JsonLiterals[l][2]],
              end |-> i + Len(JsonLiterals[l][1]) - 1]
  ELSE JsonInteger(s, i)

\* json.loads(s): [ok |-> FALSE] stands for JSONDecodeError
json_loads(s) ==
  LET v == JsonValue(s, JsonSkip(s, 1))
  IN  IF v.ok /\ JsonSkip(s, v.end + 1) = Len(s) + 1 THEN v ELSE JsonFail

\* repr() of a str (the model has no single quote, so the quote is always ')
RECURSIVE ReprChars(_)
ReprChars(s) ==
  IF s = <<>> THEN <<>>
  ELSE LET c == Head(s)
           r == CASE c = "\\" -> <<"\\", "\\">>
                  [] c = "\n" -> <<"\\", "n">>
                  [] c = "\t" -> <<"\\", "t">>
                  [] c = "\r" -> <<"\\", "r">>
                  [] c = "\f" -> <<"\\", "x", "0", "c">>
                  [] c = BS   -> <<"\\", "x", "0", "8">>
                  [] OTHER    -> <<c>>
       IN  r \o ReprChars(Tail(s))

ReprStr(s) == <<"'">> \o ReprChars(s) \o <<"'">>

\* repr() of a decoded JSON value
RECURSIVE ReprJson(_)
RECURSIVE ReprItems(_)
ReprItems(items) ==
  IF items = <<>> THEN <<>>
  ELSE ReprStr(Head(items)[1]) \o <<":", " ">> \o ReprJson(Head(items)[2])
       \o (IF Len(items) > 1 THEN <<",", " ">> ELSE <<>>) \o ReprItems(Tail(items))

ReprJson(v) ==
  CASE v.t = "s"   -> ReprStr(v.s)
    [] v.t = "lit" -> v.s
    [] v.t = "o"   -> <<"{">> \o ReprItems(v.items) \o <<"}">>

\* str() of a decoded JSON value
StrJson(v) == IF v.t = "s" THEN v.s ELSE ReprJson(v)

(***************************************************************************)
(* _parse_json_format                                                      *)
(***************************************************************************)
RECURSIVE JsonStore(_, _)
JsonStore(items, result) ==
  IF items = <<>> THEN result
  ELSE LET key_raw     == Strip(Head(items)[1])
           column_name == format_column_name(key_raw)
       IN  JsonStore(Tail(items),
                     DictSet(result, column_name, PyStr(StrJson(Head(items)[2]))))

\* the parser without its except clause: the decode error leaves the function
parse_json_format_uncaught(tag_string) ==
  IF StartsWith(tag_string, "{") /\ EndsWith(tag_string, "}")
  THEN LET data == json_loads(tag_string)
       IN  IF data.ok THEN [exc |-> "", result |-> JsonStore(data.val.items, <<>>)]
           ELSE [exc |-> "JSONDecodeError", result |-> <<>>]
  ELSE [exc |-> "", result |-> parse_escaped_key_value_format(tag_string)]

\* [exc |-> the exception that leaves the function ("" for none), result |-> dict]
parse_json_format(tag_string) ==
  IF StartsWith(tag_string, "{") /\ EndsWith(tag_string, "}")
  THEN LET data == json_loads(tag_string)
       IN  IF data.ok THEN [exc |-> "", result |-> JsonStore(data.val.items, <<>>)]
           ELSE [exc |-> "", result |-> parse_escaped_key_value_format(tag_string)]
  ELSE [exc |-> "", result |-> parse_escaped_key_value_format(tag_string)]

(***************************************************************************)
(* parse_tags                                                              *)
(***************************************************************************)
\* lines 110-117: the un-escaping of a string that contains a backslash
Unescape(tag_string) ==
  IF Contains(tag_string, "\\")
  THEN LET inner == IF StartsWith(tag_string, "\"") /\ EndsWith(tag_string, "\"")
                    THEN Slice1m1(tag_string) ELSE tag_string
       IN  Replace(Replace(inner, <<"\\", "\"">>, <<"\"">>), <<"\\", "\\">>, <<"\\">>)
  ELSE tag_string

\* the selection with the pipe test made before the ':' test
Strategy_pipe_first(tag_string) ==
  IF \/ StartsWith(tag_string, "{") /\ EndsWith(tag_string, "}")
     \/ Contains(tag_string, "\"") /\ Contains(tag_string, ":")
  THEN "json"
  ELSE IF Contains(tag_string, "|") THEN "pipe"
  ELSE IF Contains(tag_string, ":") THEN "key_value"
  ELSE "none"

\* lines 120-137: which strategy the if/elif chain takes
Strategy(tag_string) ==
  IF \/ StartsWith(tag_string, "{") /\ EndsWith(tag_string, "}")
     \/ Contains(tag_string, "\"") /\ Contains(tag_string, ":")
  THEN "json"
  ELSE IF Contains(tag_string, ":") THEN "key_value"
  ELSE IF Contains(tag_string, "|") THEN "pipe"
  ELSE "none"

\* the body of the branch taken: [exc, result]
RunStrategy(strategy, tag_string) ==
  CASE strategy = "json" ->
         LET r == parse_json_format(tag_string)
         IN  IF r.exc # "" THEN r
             ELSE IF r.result = <<>>
                  THEN [exc |-> "", result |-> parse_escaped_key_value_format(tag_string)]
             ELSE r
    [] strategy = "key_value" -> [exc |-> "", result |-> parse_key_value_format(tag_string)]
    [] strategy = "pipe" -> [exc |-> "", result |-> parse_pipe_separated_format(tag_string)]
    [] OTHER -> [exc |-> "", result |-> <<>>]

\* parse_tags raising ValueError when no format matches
parse_tags_strict(tag_string) ==
  IF IsNa(tag_string)
  THEN [exc |-> "", result |-> <<>>, strategy |-> "empty", text |-> <<>>]
  ELSE LET stripped == Strip(ToStr(tag_string))
       IN  IF stripped = <<>>
           THEN [exc |-> "", result |-> <<>>, strategy |-> "empty", text |-> <<>>]
           ELSE LET text     == Unescape(stripped)
                    strategy == Strategy(text)
                    r        == RunStrategy(strategy, text)
                IN  [exc      |-> IF strategy = "none" THEN "ValueError" ELSE "",
                     result   |-> IF r.exc # "" THEN <<>> ELSE r.result,
                     strategy |-> strategy,
                     text     |-> text]

\* parse_tags starting from the three fixed fields set to None
parse_tags_fixed_fields(tag_string) ==
  LET fixed == <<<<sApplicationName, PyNone>>, <<sEnvironment, PyNone>>, <<sOwner, PyNone>>>>
  IN
  IF IsNa(tag_string)
  THEN [exc |-> "", result |-> fixed, strategy |-> "empty", text |-> <<>>]
  ELSE LET stripped == Strip(ToStr(tag_string))
       IN  IF stripped = <<>>
           THEN [exc |-> "", result |-> fixed, strategy |-> "empty", text |-> <<>>]
           ELSE LET text     == Unescape(stripped)
                    strategy == Strategy(text)
                    r        == RunStrategy(strategy, text)
                IN  [exc      |-> "",
                     result   |-> IF r.exc # "" THEN <<>> ELSE r.result,
                     strategy |-> strategy,
                     text     |-> text]

\* [exc |-> the exception that leaves parse_tags ("" for none),
\*  result |-> the dict returned, strategy |-> the branch taken,
\*  text |-> the string the branch was chosen on]
parse_tags(tag_string) ==
  IF IsNa(tag_string)
  THEN [exc |-> "", result |-> <<>>, strategy |-> "empty", text |-> <<>>]
  ELSE LET stripped == Strip(ToStr(tag_string))
       IN  IF stripped = <<>>
           THEN [exc |-> "", result |-> <<>>, strategy |-> "empty", text |-> <<>>]
           ELSE LET text     == Unescape(stripped)
                    strategy == Strategy(text)
                    r        == RunStrategy(strategy, text)
                IN  \* except Exception: the error is logged, result stays {}
                    [exc      |-> "",
                     result   |-> IF r.exc # "" THEN <<>> ELSE r.result,
                     strategy |-> strategy,
                     text     |-> text]

(***************************************************************************)
(* DataFrames: [columns |-> the column labels in order, rows |-> the rows, *)
(* each a sequence of cells aligned with the columns].                     *)
(***************************************************************************)
TAG_COLUMN == <<"T","a","g","s">>

sDate == <<"D","a","t","e">>

DataFrame(rows, columns) == [columns |-> columns, rows |-> rows]

NoFrame == DataFrame(<<>>, <<>>)

HasColumn(df, col) == \E i \in DOMAIN df.columns : df.columns[i] = col

\* the position of the first column carrying the label
ColumnLoc(df, col) ==
  CHOOSE i \in DOMAIN df.columns :
    /\ df.columns[i] = col
    /\ \A j \in 1..(i - 1) : df.columns[j] # col

HasDuplicateColumns(df) ==
  \E i, j \in DOMAIN df.columns : i # j /\ df.columns[i] = df.columns[j]

\* the labels of cols followed by the labels of more that cols does not hold
RECURSIVE UnionColumns(_, _)
UnionColumns(cols, more) ==
  IF more = <<>> THEN cols
  ELSE IF \E i \in DOMAIN cols : cols[i] = Head(more)
       THEN UnionColumns(cols, Tail(more))
       ELSE UnionColumns(Append(cols, Head(more)), Tail(more))

\* pd.DataFrame(list of dicts): the keys in first-seen order
RECURSIVE DictColumns(_, _)
DictColumns(dicts, cols) ==
  IF dicts = <<>> THEN cols
  ELSE DictColumns(Tail(dicts),
                   UnionColumns(cols, [i \in DOMAIN Head(dicts) |-> Head(dicts)[i][1]]))

\* pd.DataFrame(list of dicts): one row per dict, NaN where a dict lacks a key
FrameOfDicts(dicts) ==
  LET cols == DictColumns(dicts, <<>>)
  IN  DataFrame([r \in DOMAIN dicts |->
                   [k \in DOMAIN cols |->
                      IF DictHas(dicts[r], cols[k]) THEN DictGet(dicts[r], cols[k]) ELSE PyNaN]],
                cols)

\* df[col] = value: the column is overwritten in place, or appended
SetColumn(df, col, value) ==
  IF HasColumn(df, col)
  THEN DataFrame([r \in DOMAIN df.rows |->
                    [k \in DOMAIN df.columns |->
                       IF df.columns[k] = col THEN value ELSE df.rows[r][k]]],
                 df.columns)
  ELSE DataFrame([r \in DOMAIN df.rows |-> Append(df.rows[r], value)],
                 Append(df.columns, col))

\* drop leaving every column in place
DropColumns_none(df, dropped) == df

\* df.drop(columns=...): the columns whose label is in dropped are removed
DropColumns(df, dropped) ==
  LET keep == SelectSeq([k \in DOMAIN df.columns |-> k],
                        LAMBDA k : df.columns[k] \notin dropped)
  IN  DataFrame([r \in DOMAIN df.rows |-> [k \in DOMAIN keep |-> df.rows[r][keep[k]]]],
                [k \in DOMAIN keep |-> df.columns[keep[k]]])

\* pd.concat([left, right], axis=1) of two frames with the same row index
ConcatColumns(left, right) ==
  DataFrame([r \in DOMAIN left.rows |-> left.rows[r] \o right.rows[r]],
            left.columns \o right.columns)

(***************************************************************************)
(* process_dataframe: [exc |-> the exception raised ("" for none),         *)
(* df |-> the frame returned]                                              *)
(***************************************************************************)
\* process_dataframe passing a frame without the tag column through unchanged
process_dataframe_lenient(df, tag_column_arg, date_value) ==
  [exc |-> "", df |-> df]

\* lines 313-326, given the dicts parse_tags returned for the rows
MergeParsed(df, tag_column, dicts, date_value) ==
  LET parsed_df      == SetColumn(FrameOfDicts(dicts), sDate, date_value)
      duplicate_cols == { col \in Range(parsed_df.columns) :
                            HasColumn(df, col) /\ col # tag_column }
  IN  ConcatColumns(df, DropColumns(parsed_df, duplicate_cols))

\* line 309, given what parse_tags did for each row: the first exception of
\* a row leaves apply, else the frames are merged
ApplyParsed(df, tag_column, parsed_data, date_value) ==
  LET raising == { r \in DOMAIN parsed_data : parsed_data[r].exc # "" }
  IN  IF raising # {}
      THEN [exc |-> parsed_data[CHOOSE r \in raising : \A q \in raising : r <= q].exc,
            df  |-> NoFrame]
      ELSE [exc |-> "",
            df  |-> MergeParsed(df, tag_column,
                                [r \in DOMAIN parsed_data |-> parsed_data[r].result],
                                date_value)]

process_dataframe(df, tag_column_arg, date_value) ==
  LET tag_column == IF tag_column_arg = PyNone THEN TAG_COLUMN ELSE tag_column_arg.s
  IN  IF ~HasColumn(df, tag_column)
      THEN [exc |-> "ValueError", df |-> NoFrame]
      ELSE ApplyParsed(df, tag_column,
                       [r \in DOMAIN df.rows |->
                          parse_tags(df.rows[r][ColumnLoc(df, tag_column)])],
                       date_value)

(***************************************************************************)
(* The sheet of the input file, read_excel_in_chunks and validation.       *)
(* An input file is [readable, header, rows]; sheet row 1 is the header    *)
(* and sheet row r + 1 is rows[r], so ws.max_row is Len(rows) + 1.         *)
(***************************************************************************)
\* validate_excel_file: the file opens and its first rows hold data
validate_excel_file(file) == file.readable /\ file.rows # <<>>

\* ws.max_row of the sheet
MaxRow(file) == Len(file.rows) + 1

\* iter_rows taking max_row as the first row not to give
IterRows_exclusive(file, min_row, max_row) ==
  LET last == IF max_row - 1 < MaxRow(file) THEN max_row - 1 ELSE MaxRow(file)
  IN  IF min_row > last THEN <<>> ELSE SubSeq(file.rows, min_row - 1, last - 1)

\* the rows ws.iter_rows(min_row, max_row) gives
IterRows(file, min_row, max_row) ==
  LET last == IF max_row < MaxRow(file) THEN max_row ELSE MaxRow(file)
  IN  IF min_row > last THEN <<>> ELSE SubSeq(file.rows, min_row - 1, last - 1)

(***************************************************************************)
(* write_chunks_to_excel and write_dataframe_to_excel_optimized:           *)
(* [exc |-> the exception raised ("" for none), file |-> the sheet written]*)
(***************************************************************************)
\* the union of the chunks' column labels, in first-seen order
RECURSIVE AllColumns(_, _)
AllColumns(rest, cols) ==
  IF rest = <<>> THEN cols
  ELSE AllColumns(Tail(rest), UnionColumns(cols, Head(rest).columns))

\* the chunks' rows one after the other, cell k of a row under label k of the
\* union whatever the row's own labels are
ConcatRows_positional(chunks) ==
  LET cols == AllColumns(chunks, <<>>)
      Widen(df) ==
        [r \in DOMAIN df.rows |->
           [k \in DOMAIN cols |-> IF k <= Len(df.rows[r]) THEN df.rows[r][k] ELSE PyNaN]]
  IN  [exc |-> "",
       df  |-> DataFrame(Flatten([i \in DOMAIN chunks |-> Widen(chunks[i])]), cols)]

\* pd.concat(chunks, ignore_index=True): [exc, df]
ConcatRows(chunks) ==
  LET same == \A i \in DOMAIN chunks : chunks[i].columns = chunks[1].columns
      cols == IF same THEN chunks[1].columns ELSE AllColumns(chunks, <<>>)
      Widen(df) ==
        [r \in DOMAIN df.rows |->
           [k \in DOMAIN cols |->
              IF same THEN df.rows[r][k]
              ELSE IF HasColumn(df, cols[k]) THEN df.rows[r][ColumnLoc(df, cols[k])]
              ELSE PyNaN]]
  IN  IF ~same /\ \E i \in DOMAIN chunks : HasDuplicateColumns(chunks[i])
      THEN [exc |-> "InvalidIndexError", df |-> NoFrame]
      ELSE [exc |-> "",
            df  |-> DataFrame(Flatten([i \in DOMAIN chunks |-> Widen(chunks[i])]), cols)]

\* the cell xlsxwriter is given: '' for a null
WrittenCell(value) == IF IsNa(value) THEN PyStr(<<>>) ELSE value

write_dataframe_to_excel_optimized(df, write_ok) ==
  IF df.rows = <<>> \/ df.columns = <<>>
  THEN [exc |-> "ValueError", file |-> NoFrame]
  ELSE IF HasDuplicateColumns(df) \/ ~write_ok
  THEN [exc |-> "IOError", file |-> NoFrame]
  ELSE [exc  |-> "",
        file |-> DataFrame([r \in DOMAIN df.rows |->
                              [k \in DOMAIN df.columns |-> WrittenCell(df.rows[r][k])]],
                           df.columns)]

\* lines 175-196, given what pd.concat did
WriteCombined(combined, write_ok) ==
  IF combined.exc # ""
  THEN [exc |-> combined.exc, file |-> NoFrame]
  ELSE write_dataframe_to_excel_optimized(combined.df, write_ok)

write_chunks_to_excel(chunks, write_ok) ==
  IF chunks = <<>>
  THEN [exc |-> "ValueError", file |-> NoFrame]
  ELSE WriteCombined(ConcatRows(chunks), write_ok)

(***************************************************************************)
(* The pipeline as a function of the sheet and the chunk size: the chunks  *)
(* read_excel_in_chunks yields, process_dataframe on each, pd.concat of    *)
(* the results.                                                            *)
(***************************************************************************)
\* the chunks the generator yields from sheet row current_row on
RECURSIVE read_excel_in_chunks(_, _, _)
read_excel_in_chunks(file, chunk_size, current_row) ==
  IF current_row > MaxRow(file) \/ IterRows(file, current_row, current_row + chunk_size - 1) = <<>>
  THEN <<>>
  ELSE <<DataFrame(IterRows(file, current_row, current_row + chunk_size - 1), file.header)>>
       \o read_excel_in_chunks(file, chunk_size, current_row + chunk_size)

\* the loop over the chunks: what process_dataframe returns for each
ProcessChunks(chunks, date_value) ==
  [i \in DOMAIN chunks |-> process_dataframe(chunks[i], PyNone, date_value)]

\* the combined frame, or the first exception: [exc, df]
CombineProcessed(processed) ==
  IF \E i \in DOMAIN processed : processed[i].exc # ""
  THEN [exc |-> "ValueError", df |-> NoFrame]
  ELSE IF processed = <<>>
  THEN [exc |-> "ValueError", df |-> NoFrame]
  ELSE ConcatRows([i \in DOMAIN processed |-> processed[i].df])

Pipeline(file, chunk_size, date_value) ==
  CombineProcessed(ProcessChunks(read_excel_in_chunks(file, chunk_size, 2), date_value))

(***************************************************************************)
(* prepare_document: the document built from one row of a frame, without   *)
(* its metadata (import time, source file).                                *)
(***************************************************************************)
\* line 45: the column names searched for the cost, in order
CostKeys ==
  << sCost,
     <<"C","o","s","t","U","S","D">>,
     <<"c","o","s","t">>,
     <<"C","O","S","T">>,
     <<"P","r","e","T","a","x","C","o","s","t">>,
     <<"C","o","s","t","I","n","B","i","l","l","i","n","g","C","u","r","r","e","n","c","y">> >>

\* row.to_dict(): a label occurring twice keeps its last cell
RECURSIVE RowToDict(_, _, _)
RowToDict(columns, cells, doc) ==
  IF columns = <<>> THEN doc
  ELSE RowToDict(Tail(columns), Tail(cells), DictSet(doc, Head(columns), Head(cells)))

\* doc.get(key)
DocGet(doc, key) == IF DictHas(doc, key) THEN DictGet(doc, key) ELSE PyNone

\* lines 42-55: the first cost column holding a value
RECURSIVE CostValue(_, _)
CostValue(doc, keys) ==
  IF keys = <<>> THEN PyNone
  ELSE IF DictHas(doc, Head(keys)) /\ ~IsNa(DictGet(doc, Head(keys)))
       THEN DictGet(doc, Head(keys))
       ELSE CostValue(doc, Tail(keys))

\* lines 62-64: NaN replaced by None
CleanDoc(doc) ==
  [i \in DOMAIN doc |-> <<doc[i][1], IF IsNa(doc[i][2]) THEN PyNone ELSE doc[i][2]>>]

\* lines 69-97, given the cleaned doc and the cost found before the cleaning
StructuredDoc(doc, cost_value) ==
  [ applicationName |-> DocGet(doc, sApplicationName),
    environment     |-> DocGet(doc, sEnvironment),
    owner           |-> DocGet(doc, sOwner),
    cost            |-> cost_value,
    date            |-> DocGet(doc, sDate),
    tags_raw        |-> DocGet(doc, TAG_COLUMN),
    originalData    |-> doc ]

prepare_document(columns, cells) ==
  StructuredDoc(CleanDoc(RowToDict(columns, cells, <<>>)),
                CostValue(RowToDict(columns, cells, <<>>), CostKeys))

(***************************************************************************)
(* insert_dataframe_to_mongodb: [success, total_documents, inserted,       *)
(* failed] is what it returns.                                             *)
(***************************************************************************)
\* lines 131-134: one document per row
PrepareAll(df) ==
  [r \in DOMAIN df.rows |-> prepare_document(df.columns, df.rows[r])]

\* documents[i:i + batch_size], i counted from 0
Batch(docs, i, batch_size) ==
  SubSeq(docs, i + 1, IF i + batch_size < Len(docs) THEN i + batch_size ELSE Len(docs))

(***************************************************************************)
(* State.                                                                  *)
(***************************************************************************)
VARIABLES
  norm_pc,     \* format_column_name caller: "idle", "call", "once", "twice"
  norm_key,    \* the raw key passed to format_column_name
  norm_out,    \* format_column_name(norm_key), once computed
  norm_out2,   \* format_column_name(norm_out), once computed
  parse_pc,    \* parse_tags caller: "idle", "call", "done"
  tag_src,     \* how the tag cell was written (its pieces and its dressing)
  tag_input,   \* the cell value passed to parse_tags
  parse_out,   \* what parse_tags returned
  frame_pc,    \* process_dataframe caller: "idle", "call", "done"
  frame_in,    \* the arguments: [df, tag_column, date_value]
  frame_out,   \* what process_dataframe returned or raised: [exc, df]
  run_pc,      \* process_excel_file: "idle", "start", "pull", "process", "write", "done"
  input_file,  \* the workbook at input_path: [readable, header, rows]
  write_ok,    \* whether the file system lets output_path be written
  chunk_size,  \* rows per chunk (config.CHUNK_SIZE in the program)
  current_row, \* read_excel_in_chunks: the sheet row the next chunk starts at
  chunk,       \* the chunk the generator yielded last
  processed_chunks,
  total_processed,
  progress,    \* the calls of progress_callback so far: <<processed, total>>
  output_file, \* the workbook at output_path: NoFrame while none is written
  run_result,  \* what process_excel_file returned: "none", "True", "False"
  run_exc,     \* the exception process_excel_file caught: [name, raised_by]
  mongo_pc,    \* "idle", "enrich", "prepare", "insert", "done", "failed"
  mongo_in,    \* [df, date_value, batch_size]: the sheet, the run's date, the batch size
  mongo_df,    \* the df argument of insert_dataframe_to_mongodb
  documents,   \* the prepared documents
  batch_start, \* i of the batch loop
  total_inserted,
  failed_inserts,
  mongo_result, \* what insert_dataframe_to_mongodb returned
  write_pc,    \* write_chunks_to_excel: "idle", "combine", "headers", "batch", "done"
  write_in,    \* [chunks, write_ok, batch_size]
  combined_df, \* the frame pd.concat returned
  rows_written, \* rows written so far
  row_calls,   \* rows_written of every call of the writer's progress_callback
  pct_calls,   \* percentage of every call of write_chunks_to_excel's progress_callback
  write_out    \* [exc, file]: the exception raised ("" for none) and the sheet written

normVars == <<norm_pc, norm_key, norm_out, norm_out2>>

parseVars == <<parse_pc, tag_src, tag_input, parse_out>>

frameVars == <<frame_pc, frame_in, frame_out>>

runVars ==
  <<run_pc, input_file, write_ok, chunk_size, current_row, chunk, processed_chunks,
    total_processed, progress, output_file, run_result, run_exc>>

mongoVars ==
  <<mongo_pc, mongo_in, mongo_df, documents, batch_start, total_inserted, failed_inserts,
    mongo_result>>

writeVars == <<write_pc, write_in, combined_df, rows_written, row_calls, pct_calls, write_out>>

vars == <<normVars, parseVars, frameVars, runVars, mongoVars, writeVars>>

NoSrc ==
  [gen |-> "none", brace |-> FALSE, pad |-> FALSE, enc |-> "plain", sep |-> <<>>, items |-> <<>>]

NoOut == [exc |-> "", result |-> <<>>, strategy |-> "", text |-> <<>>]

NoFile == [readable |-> FALSE, header |-> <<>>, rows |-> <<>>]

NoExc == [name |-> "", raised_by |-> ""]

NoResult == [success |-> FALSE, total_documents |-> 0, inserted |-> 0, failed |-> 0]

NormIdle == norm_pc = "idle" /\ norm_key = <<>> /\ norm_out = <<>> /\ norm_out2 = <<>>

ParseIdle ==
  parse_pc = "idle" /\ tag_src = NoSrc /\ tag_input = PyNone /\ parse_out = NoOut

FrameIdle ==
  /\ frame_pc = "idle"
  /\ frame_in = [df |-> NoFrame, tag_column |-> PyNone, date_value |-> PyNone]
  /\ frame_out = [exc |-> "", df |-> NoFrame]

RunIdle ==
  /\ run_pc = "idle"
  /\ input_file = NoFile
  /\ write_ok = FALSE
  /\ chunk_size = 1
  /\ current_row = 2
  /\ chunk = NoFrame
  /\ processed_chunks = <<>>
  /\ total_processed = 0
  /\ progress = <<>>
  /\ output_file = NoFrame
  /\ run_result = "none"
  /\ run_exc = NoExc

NoWrite == [exc |-> "", file |-> NoFrame]

WriteIdle ==
  /\ write_pc = "idle"
  /\ write_in = [chunks |-> <<>>, write_ok |-> FALSE, batch_size |-> 1]
  /\ combined_df = NoFrame
  /\ rows_written = 0
  /\ row_calls = <<>>
  /\ pct_calls = <<>>
  /\ write_out = NoWrite

MongoIdle ==
  /\ mongo_pc = "idle"
  /\ mongo_in = [df |-> NoFrame, date_value |-> PyNone, batch_size |-> 1]
  /\ mongo_df = NoFrame
  /\ documents = <<>>
  /\ batch_start = 0
  /\ total_inserted = 0
  /\ failed_inserts = 0
  /\ mongo_result = NoResult

(***************************************************************************)
(* SpecNorm: format_column_name applied to a raw key, then to its result.  *)
(***************************************************************************)
\* fragments raw keys are made of
KeyTokens ==
  { <<"e","n","v">>,
    <<"e","n","v","i","r","o","n","m","e","n","t">>,
    <<"a","p","p","l","i","c","a","t","i","o","n">>,
    <<"n","a","m","e">>,
    <<"c","o","s","t">>,
    <<"c","e","n","t","e","r">>,
    <<"c","u","s","t","o","m">>,
    <<"f","i","e","l","d">>,
    <<"O","w","n","E","R">>,
    <<"k","1","b">>,
    <<"_">>,
    <<" ">> }

KeyTokenSeqs == UNION { [1..n -> KeyTokens] : n \in 0..MaxKeyTokens }

NormInit ==
  /\ norm_pc = "call"
  /\ norm_key \in { Flatten(ts) : ts \in KeyTokenSeqs }
  /\ norm_out = <<>>
  /\ norm_out2 = <<>>
  /\ ParseIdle /\ FrameIdle /\ RunIdle /\ MongoIdle /\ WriteIdle

Normalize ==
  /\ norm_pc = "call"
  /\ norm_out' = format_column_name(norm_key)
  /\ norm_pc' = "once"
  /\ UNCHANGED <<norm_key, norm_out2>>
  /\ UNCHANGED <<parseVars, frameVars, runVars, mongoVars, writeVars>>

Renormalize ==
  /\ norm_pc = "once"
  /\ norm_out2' = format_column_name(norm_out)
  /\ norm_pc' = "twice"
  /\ UNCHANGED <<norm_key, norm_out>>
  /\ UNCHANGED <<parseVars, frameVars, runVars, mongoVars, writeVars>>

NormNext == Normalize \/ Renormalize

SpecNorm == NormInit /\ [][NormNext]_vars

(***************************************************************************)
(* SpecParse: parse_tags applied to one tag cell.  A cell is None, NaN, a  *)
(* number, or a string written from pieces: quoted pairs, key:value pairs  *)
(* and plain text joined by a separator, optionally wrapped in braces,     *)
(* padded with blanks, backslash-escaped and wrapped in quotes; or a       *)
(* string of arbitrary single characters.                                  *)
(***************************************************************************)
Item(kind, key, value) == [kind |-> kind, key |-> key, value |-> value]

TagItems ==
  { Item("qpair", <<"e","n","v">>, <<"p">>),
    Item("qpair", <<"o","w","n","e","r">>, <<"a",",","b",":","c">>),
    Item("qpair", <<" ","E","n","v","i","r","o","n","m","e","n","t">>, <<" ","q"," ">>),
    Item("qpair", <<"k">>, <<"x","\\","y">>),
    Item("jnum", <<"n">>, <<"1">>),
    Item("kv", <<"e","n","v">>, <<"p">>),
    Item("kv", <<"E","N","V">>, <<"q">>),
    Item("kv", <<"c","u","s","t","o","m","_","f","i","e","l","d">>, <<"a",":","b">>),
    Item("kv", <<" ","O","w","n","e","r"," ">>, <<" ","o"," ">>),
    Item("text", <<>>, <<"x">>),
    Item("text", <<>>, <<"a","|","b"," ","|","c">>) }

TagSeps == { <<",">>, <<";">>, <<"|">> }

TagChars == { "\"", ":", "\\", "{", "}", "|", ",", " ", "x", "1" }

RenderItem(item) ==
  CASE item.kind = "qpair" ->
         <<"\"">> \o item.key \o <<"\"", ":", "\"">> \o item.value \o <<"\"">>
    [] item.kind = "jnum" -> <<"\"">> \o item.key \o <<"\"", ":">> \o item.value
    [] item.kind = "kv" -> item.key \o <<":">> \o item.value
    [] OTHER -> item.value

RECURSIVE Join(_, _)
Join(parts, sep) ==
  IF parts = <<>> THEN <<>>
  ELSE IF Len(parts) = 1 THEN Head(parts)
  ELSE Head(parts) \o sep \o Join(Tail(parts), sep)

\* backslashes and double quotes backslash-escaped
Escape(s) == Replace(Replace(s, <<"\\">>, <<"\\", "\\">>), <<"\"">>, <<"\\", "\"">>)

\* the pieces joined, before the dressing
RenderBody(src) ==
  Join([i \in DOMAIN src.items |-> RenderItem(src.items[i])], src.sep)

\* the string before escaping: braces, then padding
RenderPlain(src) ==
  LET body   == RenderBody(src)
      braced == IF src.brace THEN <<"{">> \o body \o <<"}">> ELSE body
  IN  IF src.pad THEN <<" ">> \o braced \o <<" ">> ELSE braced

Render(src) ==
  CASE src.enc = "plain"   -> RenderPlain(src)
    [] src.enc = "escaped" -> Escape(RenderPlain(src))
    [] src.enc = "wrapped" -> <<"\"">> \o Escape(RenderPlain(src)) \o <<"\"">>

ItemSeqs == UNION { [1..n -> TagItems] : n \in 0..MaxItems }

CharSeqs ==
  UNION { [1..n -> { Item("text", <<>>, <<c>>) : c \in TagChars }] : n \in 0..MaxChars }

\* the short keys of tests/test_parser.py
AliasKeys ==
  { <<"a","p","p">>,
    <<"a","p","p","l","i","c","a","t","i","o","n">>,
    <<"e","n","v">>,
    <<"o","w","n","e","r","_","n","a","m","e">> }

\* tags of these keys only, as key:value items or as JSON members
AliasItemSeqs(kind) ==
  UNION { [1..n -> { Item(kind, k, <<"v">>) : k \in AliasKeys }] : n \in 1..MaxItems }

\* the dressings of a string: braces around it, blanks around that, escaping
TagDressings ==
  { [brace |-> FALSE, pad |-> FALSE, enc |-> "plain"],
    [brace |-> TRUE,  pad |-> FALSE, enc |-> "plain"],
    [brace |-> FALSE, pad |-> TRUE,  enc |-> "plain"],
    [brace |-> TRUE,  pad |-> TRUE,  enc |-> "plain"],
    [brace |-> FALSE, pad |-> FALSE, enc |-> "escaped"],
    [brace |-> FALSE, pad |-> FALSE, enc |-> "wrapped"],
    [brace |-> FALSE, pad |-> TRUE,  enc |-> "wrapped"],
    [brace |-> TRUE,  pad |-> TRUE,  enc |-> "wrapped"] }

TagSources ==
  { [gen |-> "items", brace |-> d.brace, pad |-> d.pad, enc |-> d.enc, sep |-> s,
     items |-> its] : d \in TagDressings, s \in TagSeps, its \in ItemSeqs }
  \cup
  { [gen |-> "chars", brace |-> FALSE, pad |-> FALSE, enc |-> "plain", sep |-> <<>>,
     items |-> cs] : cs \in CharSeqs }
  \cup
  { [gen |-> "alias", brace |-> FALSE, pad |-> FALSE, enc |-> "plain", sep |-> s,
     items |-> its] : s \in {<<",">>, <<";">>}, its \in AliasItemSeqs("kv") }
  \cup
  { [gen |-> "alias", brace |-> TRUE, pad |-> FALSE, enc |-> "plain", sep |-> <<",">>,
     items |-> its] : its \in AliasItemSeqs("qpair") }

ScalarSources ==
  { [gen |-> g, brace |-> FALSE, pad |-> FALSE, enc |-> "plain", sep |-> <<>>, items |-> <<>>] :
      g \in {"None", "nan", "int"} }

CellOf(src) ==
  CASE src.gen = "None" -> PyNone
    [] src.gen = "nan"  -> PyNaN
    [] src.gen = "int"  -> PyInt(12)
    [] OTHER            -> PyStr(Render(src))

ParseInit ==
  /\ parse_pc = "call"
  /\ tag_src \in TagSources \cup ScalarSources
  /\ tag_input = CellOf(tag_src)
  /\ parse_out = NoOut
  /\ NormIdle /\ FrameIdle /\ RunIdle /\ MongoIdle /\ WriteIdle

CallParseTags ==
  /\ parse_pc = "call"
  /\ parse_out' = parse_tags(tag_input)
  /\ parse_pc' = "done"
  /\ UNCHANGED <<tag_src, tag_input>>
  /\ UNCHANGED <<normVars, frameVars, runVars, mongoVars, writeVars>>

ParseNext == CallParseTags

SpecParse == ParseInit /\ [][ParseNext]_vars

(***************************************************************************)
(* Sheets of the pipeline: a header and up to MaxRows data rows.  The tag  *)
(* cell of a row is drawn from SheetCells; every other cell of sheet data  *)
(* row r holds the number r, but the Cost cell of an even row is empty.    *)
(***************************************************************************)
sId == <<"I","d">>

SheetHeaders ==
  { <<sId, TAG_COLUMN>>,
    <<sId>>,
    <<TAG_COLUMN, sEnvironment>>,
    <<TAG_COLUMN, sDate>>,
    <<TAG_COLUMN, sCost>> }

SheetCells ==
  { PyNone,
    PyStr(<<"e","n","v",":","p">>),
    PyStr(<<"\"","o","w","n","e","r","\"",":","\"","a","\"">>),
    PyStr(<<"x">>),
    PyStr(<<"t","a","g","s",":","t">>),
    PyStr(<<"c","o","s","t",":","5">>),
    PyStr(<<"{","\"","n","\"",":">>) }

SheetRows(header, cells) ==
  [r \in DOMAIN cells |->
     [k \in DOMAIN header |->
        IF header[k] = TAG_COLUMN THEN cells[r]
        ELSE IF header[k] = sCost /\ r % 2 = 0 THEN PyNone
        ELSE PyInt(r)]]

CellSeqs == UNION { [1..n -> SheetCells] : n \in 0..MaxRows }

Sheets == { [header |-> h, rows |-> SheetRows(h, cs)] : h \in SheetHeaders, cs \in CellSeqs }

(***************************************************************************)
(* SpecFrame: process_dataframe called once on a frame.                    *)
(***************************************************************************)
FrameInit ==
  /\ frame_pc = "call"
  /\ \E sh \in Sheets, tc \in {PyNone, PyStr(sId)},
        dv \in {PyNone, PyStr(<<"2","0","2","4","-","0","1">>)} :
       frame_in = [df |-> DataFrame(sh.rows, sh.header), tag_column |-> tc, date_value |-> dv]
  /\ frame_out = [exc |-> "", df |-> NoFrame]
  /\ NormIdle /\ ParseIdle /\ RunIdle /\ MongoIdle /\ WriteIdle

CallProcessDataframe ==
  /\ frame_pc = "call"
  /\ frame_out' = process_dataframe(frame_in.df, frame_in.tag_column, frame_in.date_value)
  /\ frame_pc' = "done"
  /\ UNCHANGED frame_in
  /\ UNCHANGED <<normVars, parseVars, runVars, mongoVars, writeVars>>

FrameNext == CallProcessDataframe

SpecFrame == FrameInit /\ [][FrameNext]_vars

(***************************************************************************)
(* SpecTagRows: a tag cell parsed on its own, or a frame of tag cells      *)
(* processed.                                                              *)
(***************************************************************************)
SpecTagRows == (ParseInit \/ FrameInit) /\ [][ParseNext \/ FrameNext]_vars

(***************************************************************************)
(* SpecRun: process_excel_file on one input file.                          *)
(***************************************************************************)
RunInit ==
  /\ run_pc = "start"
  /\ \E sh \in Sheets, ok \in BOOLEAN :
       input_file = [readable |-> ok, header |-> sh.header, rows |-> sh.rows]
  /\ write_ok \in BOOLEAN
  /\ chunk_size \in 1..MaxChunk
  /\ current_row = 2
  /\ chunk = NoFrame
  /\ processed_chunks = <<>>
  /\ total_processed = 0
  /\ progress = <<>>
  /\ output_file = NoFrame
  /\ run_result = "none"
  /\ run_exc = NoExc
  /\ NormIdle /\ ParseIdle /\ FrameIdle /\ MongoIdle /\ WriteIdle

\* lines 50-58: validation, then the empty accumulators
Validate ==
  /\ run_pc = "start"
  /\ IF validate_excel_file(input_file)
     THEN run_pc' = "pull" /\ run_result' = run_result
     ELSE run_pc' = "done" /\ run_result' = "False"
  /\ UNCHANGED <<input_file, write_ok, chunk_size, current_row, chunk, processed_chunks,
                 total_processed, progress, output_file, run_exc>>
  /\ UNCHANGED <<normVars, parseVars, frameVars, mongoVars, writeVars>>

\* line 61: the generator is asked for the next chunk and runs to its next
\* yield, or to its end
PullChunk ==
  /\ run_pc = "pull"
  /\ LET rows_data == IterRows(input_file, current_row, current_row + chunk_size - 1)
     IN  IF current_row <= MaxRow(input_file) /\ rows_data # <<>>
         THEN /\ chunk' = DataFrame(rows_data, input_file.header)
              /\ current_row' = current_row + chunk_size
              /\ run_pc' = "process"
         ELSE /\ run_pc' = "write"
              /\ UNCHANGED <<chunk, current_row>>
  /\ UNCHANGED <<input_file, write_ok, chunk_size, processed_chunks, total_processed,
                 progress, output_file, run_result, run_exc>>
  /\ UNCHANGED <<normVars, parseVars, frameVars, mongoVars, writeVars>>

\* the loop body reporting the size of the chunk instead of the running total
KeepChunk_chunk_size(r) ==
  IF r.exc # ""
  THEN /\ run_exc' = [name |-> r.exc, raised_by |-> "process_dataframe"]
       /\ run_result' = "False"
       /\ run_pc' = "done"
       /\ UNCHANGED <<processed_chunks, total_processed, progress>>
  ELSE /\ processed_chunks' = Append(processed_chunks, r.df)
       /\ total_processed' = total_processed + Len(chunk.rows)
       /\ progress' = Append(progress, <<Len(chunk.rows), MaxRow(input_file) - 1>>)
       /\ run_pc' = "pull"
       /\ UNCHANGED <<run_result, run_exc>>

\* lines 63-70 and 79-81, given what process_dataframe did with the chunk
KeepChunk(r) ==
  IF r.exc # ""
  THEN /\ run_exc' = [name |-> r.exc, raised_by |-> "process_dataframe"]
       /\ run_result' = "False"
       /\ run_pc' = "done"
       /\ UNCHANGED <<processed_chunks, total_processed, progress>>
  ELSE /\ processed_chunks' = Append(processed_chunks, r.df)
       /\ total_processed' = total_processed + Len(chunk.rows)
       /\ progress' = Append(progress,
                             <<total_processed + Len(chunk.rows), MaxRow(input_file) - 1>>)
       /\ run_pc' = "pull"
       /\ UNCHANGED <<run_result, run_exc>>

\* the loop body writing each chunk to the output as soon as it is read
ProcessChunk_write_through ==
  /\ run_pc = "process"
  /\ KeepChunk(process_dataframe(chunk, PyNone, PyNone))
  /\ output_file' = chunk
  /\ UNCHANGED <<input_file, write_ok, chunk_size, current_row, chunk>>
  /\ UNCHANGED <<normVars, parseVars, frameVars, mongoVars, writeVars>>

\* lines 63-70: the chunk is processed and kept, progress is reported
ProcessChunk ==
  /\ run_pc = "process"
  /\ KeepChunk(process_dataframe(chunk, PyNone, PyNone))
  /\ UNCHANGED <<input_file, write_ok, chunk_size, current_row, chunk, output_file>>
  /\ UNCHANGED <<normVars, parseVars, frameVars, mongoVars, writeVars>>

\* lines 74-81, given what write_chunks_to_excel did
Finish(w) ==
  IF w.exc # ""
  THEN /\ run_exc' = [name |-> w.exc, raised_by |-> "write_chunks_to_excel"]
       /\ run_result' = "False"
       /\ UNCHANGED output_file
  ELSE /\ output_file' = w.file
       /\ run_result' = "True"
       /\ UNCHANGED run_exc

\* lines 72-81: the chunks are written and the run returns
WriteChunks ==
  /\ run_pc = "write"
  /\ Finish(write_chunks_to_excel(processed_chunks, write_ok))
  /\ run_pc' = "done"
  /\ UNCHANGED <<input_file, write_ok, chunk_size, current_row, chunk, processed_chunks,
                 total_processed, progress>>
  /\ UNCHANGED <<normVars, parseVars, frameVars, mongoVars, writeVars>>

RunNext == Validate \/ PullChunk \/ ProcessChunk \/ WriteChunks

SpecRun == RunInit /\ [][RunNext]_vars

(***************************************************************************)
(* SpecMongo: a sheet is enriched by process_dataframe and the result is   *)
(* handed to insert_dataframe_to_mongodb, whose batches the server may     *)
(* accept or reject.                                                       *)
(***************************************************************************)
MongoInit ==
  /\ mongo_pc = "enrich"
  /\ \E sh \in Sheets, bs \in 1..MaxBatch :
       mongo_in = [df |-> DataFrame(sh.rows, sh.header),
                   date_value |-> PyStr(<<"2","0","2","4","-","0","1">>),
                   batch_size |-> bs]
  /\ mongo_df = NoFrame
  /\ documents = <<>>
  /\ batch_start = 0
  /\ total_inserted = 0
  /\ failed_inserts = 0
  /\ mongo_result = NoResult
  /\ NormIdle /\ ParseIdle /\ FrameIdle /\ RunIdle /\ WriteIdle

\* the frame process_dataframe returned becomes the df argument
Enriched(r) ==
  IF r.exc # ""
  THEN mongo_pc' = "failed" /\ UNCHANGED mongo_df
  ELSE mongo_pc' = "prepare" /\ mongo_df' = r.df

Enrich ==
  /\ mongo_pc = "enrich"
  /\ Enriched(process_dataframe(mongo_in.df, PyNone, mongo_in.date_value))
  /\ UNCHANGED <<mongo_in, documents, batch_start, total_inserted, failed_inserts,
                 mongo_result>>
  /\ UNCHANGED <<normVars, parseVars, frameVars, runVars, writeVars>>

\* lines 126-138: the documents are prepared, the counters start at 0
PrepareDocuments ==
  /\ mongo_pc = "prepare"
  /\ documents' = PrepareAll(mongo_df)
  /\ batch_start' = 0
  /\ total_inserted' = 0
  /\ failed_inserts' = 0
  /\ mongo_pc' = "insert"
  /\ UNCHANGED <<mongo_in, mongo_df, mongo_result>>
  /\ UNCHANGED <<normVars, parseVars, frameVars, runVars, writeVars>>

\* lines 141-151: one batch is sent; insert_many returns or raises
InsertBatch ==
  /\ mongo_pc = "insert"
  /\ batch_start < Len(documents)
  /\ \E accepted \in BOOLEAN :
       LET n == Len(Batch(documents, batch_start, mongo_in.batch_size))
       IN  IF accepted
           THEN total_inserted' = total_inserted + n /\ UNCHANGED failed_inserts
           ELSE failed_inserts' = failed_inserts + n /\ UNCHANGED total_inserted
  /\ batch_start' = batch_start + mongo_in.batch_size
  /\ UNCHANGED <<mongo_pc, mongo_in, mongo_df, documents, mongo_result>>
  /\ UNCHANGED <<normVars, parseVars, frameVars, runVars, writeVars>>

\* lines 153-165: the loop is over, the statistics are returned
ReturnStatistics ==
  /\ mongo_pc = "insert"
  /\ batch_start >= Len(documents)
  /\ mongo_result' = [success |-> TRUE, total_documents |-> Len(mongo_df.rows),
                      inserted |-> total_inserted, failed |-> failed_inserts]
  /\ mongo_pc' = "done"
  /\ UNCHANGED <<mongo_in, mongo_df, documents, batch_start, total_inserted, failed_inserts>>
  /\ UNCHANGED <<normVars, parseVars, frameVars, runVars, writeVars>>

MongoNext == Enrich \/ PrepareDocuments \/ InsertBatch \/ ReturnStatistics

SpecMongo == MongoInit /\ [][MongoNext]_vars

(***************************************************************************)
(* SpecWrite: write_chunks_to_excel called with a progress callback on the *)
(* processed chunks of a sheet, followed step by step through              *)
(* write_dataframe_to_excel_optimized.  pct_calls and row_calls hold the   *)
(* first argument of every call of the two callbacks, in order.            *)
(***************************************************************************)
\* the frames of a list of process_dataframe results
FramesOf(processed) == [i \in DOMAIN processed |-> processed[i].df]

\* the lists of processed chunks a sheet with a tag column gives
WriteInputs ==
  { FramesOf(ProcessChunks(read_excel_in_chunks(
               [readable |-> TRUE, header |-> sh.header, rows |-> sh.rows], cs, 2), PyNone)) :
      sh \in { s \in Sheets : \E k \in DOMAIN s.header : s.header[k] = TAG_COLUMN },
      cs \in 1..MaxChunk }

\* line 184: 10 + int((rows_written / total) * 90)
Percent(rows, total) == 10 + ((rows * 90) \div total)

WriteInit ==
  /\ write_pc = "combine"
  /\ \E chunks \in WriteInputs, ok \in BOOLEAN, bs \in 1..MaxWriteBatch :
       write_in = [chunks |-> chunks, write_ok |-> ok, batch_size |-> bs]
  /\ combined_df = NoFrame
  /\ rows_written = 0
  /\ row_calls = <<>>
  /\ pct_calls = <<>>
  /\ write_out = NoWrite
  /\ NormIdle /\ ParseIdle /\ FrameIdle /\ RunIdle /\ MongoIdle

\* the exception leaves write_chunks_to_excel
WriteRaises(name) ==
  /\ write_out' = [exc |-> name, file |-> NoFrame]
  /\ write_pc' = "done"

\* lines 175-180, given what pd.concat did
Combined(c) ==
  IF c.exc # ""
  THEN /\ WriteRaises(c.exc)
       /\ pct_calls' = <<0>>
       /\ UNCHANGED combined_df
  ELSE /\ combined_df' = c.df
       /\ pct_calls' = <<0, 10>>
       /\ write_pc' = "headers"
       /\ UNCHANGED write_out

\* write_chunks_to_excel, lines 163-180: the chunks are combined
CombineChunks ==
  /\ write_pc = "combine"
  /\ IF write_in.chunks = <<>>
     THEN WriteRaises("ValueError") /\ UNCHANGED <<combined_df, pct_calls>>
     ELSE Combined(ConcatRows(write_in.chunks))
  /\ UNCHANGED <<write_in, rows_written, row_calls>>
  /\ UNCHANGED <<normVars, parseVars, frameVars, runVars, mongoVars>>

\* write_dataframe_to_excel_optimized, lines 76-99: the headers are written
WriteHeaders ==
  /\ write_pc = "headers"
  /\ IF combined_df.rows = <<>> \/ combined_df.columns = <<>>
     THEN WriteRaises("ValueError") /\ UNCHANGED <<row_calls, pct_calls>>
     ELSE /\ row_calls' = <<0>>
          /\ pct_calls' = Append(pct_calls, Percent(0, Len(combined_df.rows)))
          /\ write_pc' = "batch"
          /\ UNCHANGED write_out
  /\ rows_written' = 0
  /\ UNCHANGED <<write_in, combined_df>>
  /\ UNCHANGED <<normVars, parseVars, frameVars, runVars, mongoVars>>

\* lines 103-124: one batch of rows is written and reported; reading a cell
\* of a frame with a repeated label raises
WriteBatch ==
  /\ write_pc = "batch"
  /\ rows_written < Len(combined_df.rows)
  /\ IF HasDuplicateColumns(combined_df)
     THEN WriteRaises("IOError") /\ UNCHANGED <<rows_written, row_calls, pct_calls>>
     ELSE LET end_idx == IF rows_written + write_in.batch_size < Len(combined_df.rows)
                         THEN rows_written + write_in.batch_size
                         ELSE Len(combined_df.rows)
          IN  /\ rows_written' = end_idx
              /\ row_calls' = Append(row_calls, end_idx)
              /\ pct_calls' = Append(pct_calls, Percent(end_idx, Len(combined_df.rows)))
              /\ UNCHANGED <<write_pc, write_out>>
  /\ UNCHANGED <<write_in, combined_df>>
  /\ UNCHANGED <<normVars, parseVars, frameVars, runVars, mongoVars>>

\* lines 126-139 and 190-191: the workbook is closed, which writes the file,
\* and the end is reported by both functions
CloseWorkbook ==
  /\ write_pc = "batch"
  /\ rows_written >= Len(combined_df.rows)
  /\ IF ~write_in.write_ok
     THEN WriteRaises("IOError") /\ UNCHANGED <<row_calls, pct_calls>>
     ELSE /\ write_out' = write_dataframe_to_excel_optimized(combined_df, TRUE)
          /\ row_calls' = Append(row_calls, Len(combined_df.rows))
          /\ pct_calls' = pct_calls \o <<Percent(Len(combined_df.rows), Len(combined_df.rows)), 100>>
          /\ write_pc' = "done"
  /\ UNCHANGED <<write_in, combined_df, rows_written>>
  /\ UNCHANGED <<normVars, parseVars, frameVars, runVars, mongoVars>>

WriteNext == CombineChunks \/ WriteHeaders \/ WriteBatch \/ CloseWorkbook

SpecWrite == WriteInit /\ [][WriteNext]_vars

(***************************************************************************)
(* Claims about format_column_name (checked under SpecNorm).               *)
(***************************************************************************)
NormKeys == DictKeys(special_cases)

\* C4 as stated: the key is lower-cased and trimmed first and its underscores
\* are replaced afterwards; that result is looked up in the synonym table, and
\* a key without entry gives the trimmed, underscore-to-space key title-cased.
C4_LookupAfterLowerTrim ==
  norm_pc \in {"once", "twice"} =>
    norm_out = format_column_name_lookup_first(norm_key)

\* C4 amended: format_column_name is total and computes: replace underscores by
\* spaces, then lower-case and trim; look that up in the synonym table (env and
\* environment give Environment, applicationname gives Application Name,
\* costcenter gives Cost Center); without entry the result is the
\* underscore-to-space key, trimmed, each word title-cased (custom_field gives
\* Custom Field).
C4_ReplaceThenLookup ==
  norm_pc \in {"once", "twice"} =>
    LET spaced == [i \in DOMAIN norm_key |-> IF norm_key[i] = "_" THEN " " ELSE norm_key[i]]
        probe  == Strip(Lower(spaced))
    IN  /\ probe \in NormKeys => norm_out = DictGet(special_cases, probe)
        /\ probe \notin NormKeys => norm_out = Title(Strip(spaced))
        /\ norm_key \in {<<"e","n","v">>, <<"e","n","v","i","r","o","n","m","e","n","t">>}
             => norm_out = sEnvironment
        /\ norm_key = <<"a","p","p","l","i","c","a","t","i","o","n","n","a","m","e">>
             => norm_out = sApplicationName
        /\ norm_key = <<"c","o","s","t","c","e","n","t","e","r">> => norm_out = sCostCenter
        /\ norm_key = <<"c","u","s","t","o","m","_","f","i","e","l","d">>
             => norm_out = <<"C","u","s","t","o","m"," ","F","i","e","l","d">>

\* a key with a leading underscore that names a table entry has been normalized
C4_Witness ==
  /\ norm_pc = "once"
  /\ norm_key = <<"_","e","n","v">>
  /\ norm_out = sEnvironment

\* C5: normalizing an already normalized key returns it unchanged.
C5_Idempotent == norm_pc = "twice" => norm_out2 = norm_out

\* both a table entry and a title-cased unknown key have been normalized twice
C5_Witness ==
  /\ norm_pc = "twice"
  /\ norm_key = <<"a","p","p","l","i","c","a","t","i","o","n","n","a","m","e">>
  /\ norm_out = sApplicationName
  /\ norm_out2 = sApplicationName

(***************************************************************************)
(* Claims about parse_tags (checked under SpecParse).                      *)
(***************************************************************************)
\* the string the format is detected on: the cell as text, trimmed and, if it
\* holds a backslash, un-escaped
DetectText == Unescape(Strip(ToStr(tag_input)))

IsQuotedPairList ==
  /\ tag_src.gen = "items"
  /\ tag_src.enc = "plain"
  /\ ~tag_src.brace
  /\ tag_src.sep = <<",">>
  /\ tag_src.items # <<>>
  /\ \A i \in DOMAIN tag_src.items : tag_src.items[i].kind = "qpair"
  /\ \A i, j \in DOMAIN tag_src.items :
       i # j => format_column_name(Strip(tag_src.items[i].key))
                  # format_column_name(Strip(tag_src.items[j].key))

\* the entries the pairs of the cell stand for
PairEntries ==
  { <<format_column_name(Strip(tag_src.items[i].key)), PyStr(Strip(tag_src.items[i].value))>> :
      i \in DOMAIN tag_src.items }

\* C6: for a string of comma-separated "key":"value" pairs with distinct
\* canonical keys, parse_tags returns exactly one entry per pair, mapping the
\* normalized key to the trimmed value; a value holding a comma or a colon is
\* recovered whole.
C6_OneEntryPerPair ==
  parse_pc = "done" /\ IsQuotedPairList =>
    /\ parse_out.exc = ""
    /\ Len(parse_out.result) = Len(tag_src.items)
    /\ Range(parse_out.result) = PairEntries

\* C7: the key:value-list parser splits the string on ',' or ';'; a candidate
\* holding ':' yields the pair (trimmed text before its FIRST ':', trimmed text
\* after it), stored under the normalized key, a later candidate of the same
\* key replacing an earlier one; a candidate without ':' adds nothing.
C7_SplitOnFirstColon ==
  parse_pc = "done" /\ parse_out.strategy = "key_value" =>
    LET cands     == SplitOn(parse_out.text, {",", ";"})
        withColon == { i \in DOMAIN cands : \E j \in DOMAIN cands[i] : cands[i][j] = ":" }
        first(i)  == CHOOSE j \in DOMAIN cands[i] :
                       /\ cands[i][j] = ":"
                       /\ \A k \in 1..(j - 1) : cands[i][k] # ":"
        keyOf(i)  == format_column_name(Strip(SubSeq(cands[i], 1, first(i) - 1)))
        valOf(i)  == PyStr(Strip(SubSeq(cands[i], first(i) + 1, Len(cands[i]))))
        last      == { i \in withColon : \A j \in withColon : j > i => keyOf(j) # keyOf(i) }
    IN  /\ parse_out.exc = ""
        /\ Len(parse_out.result) = Cardinality(last)
        /\ Range(parse_out.result) = { <<keyOf(i), valOf(i)>> : i \in last }

\* a value holding ':' was kept whole and a candidate without ':' was dropped
C7_Witness ==
  /\ parse_pc = "done"
  /\ parse_out.strategy = "key_value"
  /\ parse_out.text = <<"c","u","s","t","o","m","_","f","i","e","l","d",":","a",":","b",",","x">>
  /\ parse_out.result =
       << <<<<"C","u","s","t","o","m"," ","F","i","e","l","d">>, PyStr(<<"a",":","b">>)>> >>

\* the trimmed segments of the string the pipe-list parser was chosen on
PipeSegments ==
  LET split == SplitOn(parse_out.text, {"|"})
  IN  [i \in DOMAIN split |-> Strip(split[i])]

\* C8 as stated: the pipe-list parser gives the first four non-empty segments,
\* in order, to Application Name, Environment, Owner and Cost respectively.
C8_FirstFourNonEmpty ==
  parse_pc = "done" /\ parse_out.strategy = "pipe" =>
    LET nonEmpty == SelectSeq(PipeSegments, LAMBDA p : p # <<>>)
    IN  \A i \in 1..4 :
          i <= Len(nonEmpty) => DictGet(parse_out.result, PipeFields[i]) = PyStr(nonEmpty[i])

\* C8 amended: the pipe-list parser splits the string on '|' and trims the
\* segments; the segment at position i of the first four, when it is not empty,
\* is the value of field i of Application Name, Environment, Owner, Cost,
\* whatever its content and without key normalization; a field whose position
\* is empty or missing is None, and segments after the fourth are ignored.
C8_ByPosition ==
  parse_pc = "done" /\ parse_out.strategy = "pipe" =>
    /\ parse_out.exc = ""
    /\ Len(parse_out.result) = 4
    /\ \A i \in 1..4 :
         /\ parse_out.result[i][1] = PipeFields[i]
         /\ parse_out.result[i][2] =
              IF i <= Len(PipeSegments) /\ PipeSegments[i] # <<>>
              THEN PyStr(PipeSegments[i]) ELSE PyNone

\* a string whose first segment is empty was parsed: the second segment is the
\* Environment and the Application Name is None
C8_Witness ==
  /\ parse_pc = "done"
  /\ parse_out.strategy = "pipe"
  /\ tag_input = PyStr(<<"|", "x">>)
  /\ DictGet(parse_out.result, sEnvironment) = PyStr(<<"x">>)
  /\ DictGet(parse_out.result, sApplicationName) = PyNone

\* C9: a tag string whose double quotes are backslash-escaped, wrapped or not
\* in one layer of double quotes, parses to the same map as the string with
\* the escapes removed.
C9_EscapedParsesAsPlain ==
  /\ parse_pc = "done"
  /\ tag_src.gen = "items"
  /\ tag_src.enc \in {"escaped", "wrapped"}
  /\ Contains(RenderPlain(tag_src), "\"")
  => parse_out.result = parse_tags(PyStr(RenderPlain(tag_src))).result

(***************************************************************************)
(* Claims about process_dataframe and process_excel_file.                  *)
(***************************************************************************)
\* the tag column process_dataframe was told to read
FrameTagColumn ==
  IF frame_in.tag_column = PyNone THEN TAG_COLUMN ELSE frame_in.tag_column.s

\* whether a sequence of pairs is a map: no key occurs twice
IsMap(d) == \A i, j \in DOMAIN d : i # j => d[i][1] # d[j][1]

\* C2: for every scalar tag value, well-formed or not, parse_tags returns a map
\* and does not raise; process_dataframe on a frame holding the tag column does
\* not raise and returns one row per input row, in order, and the row of a tag
\* cell that cannot be parsed keeps its original cells and has a null in every
\* column extracted from tags.
C2_UnparseableRowKept ==
  /\ parse_pc = "done" => parse_out.exc = "" /\ IsMap(parse_out.result)
  /\ frame_pc = "done" /\ HasColumn(frame_in.df, FrameTagColumn) =>
       LET width == Len(frame_in.df.columns)
           out   == frame_out.df
       IN  /\ frame_out.exc = ""
           /\ Len(out.rows) = Len(frame_in.df.rows)
           /\ \A r \in DOMAIN frame_in.df.rows :
                LET cell == frame_in.df.rows[r][ColumnLoc(frame_in.df, FrameTagColumn)]
                IN  parse_tags(cell).result = <<>> =>
                      /\ SubSeq(out.rows[r], 1, width) = frame_in.df.rows[r]
                      /\ \A k \in (width + 1)..Len(out.columns) :
                           out.columns[k] # sDate => IsNa(out.rows[r][k])

\* a frame whose first row cannot be parsed and whose second row can was
\* processed: both rows are in the result and the first has no Environment
C2_Witness ==
  /\ frame_pc = "done"
  /\ frame_in.df.columns = <<sId, TAG_COLUMN>>
  /\ frame_in.df.rows = << <<PyInt(1), PyStr(<<"x">>)>>,
                           <<PyInt(2), PyStr(<<"e","n","v",":","p">>)>> >>
  /\ frame_out.exc = ""
  /\ frame_out.df.columns = <<sId, TAG_COLUMN, sEnvironment, sDate>>
  /\ frame_out.df.rows[1][3] = PyNaN
  /\ frame_out.df.rows[2][3] = PyStr(<<"p">>)

\* C10: when the sheet has no tag column, process_dataframe raises on the first
\* chunk instead of returning a frame, no chunk is kept, process_excel_file
\* returns False and no output file is written.
C10_MissingTagColumnAborts ==
  run_pc # "idle" /\ ~(\E k \in DOMAIN input_file.header : input_file.header[k] = TAG_COLUMN) =>
    /\ output_file = NoFrame
    /\ processed_chunks = <<>>
    /\ run_result # "True"
    /\ run_pc # "write"
    /\ run_pc = "done" =>
         /\ run_result = "False"
         /\ validate_excel_file(input_file) =>
              run_exc = [name |-> "ValueError", raised_by |-> "process_dataframe"]

\* a readable two-row sheet without tag column was run with a writable
\* output path: the run ended on process_dataframe's error
C10_Witness ==
  /\ run_pc = "done"
  /\ input_file.readable
  /\ input_file.header = <<sId>>
  /\ Len(input_file.rows) = 2
  /\ write_ok
  /\ run_exc.raised_by = "process_dataframe"
  /\ run_result = "False"

\* the labels of the frame passed to process_dataframe
InColumns == frame_in.df.columns

\* the cell of row r of the returned frame under the label at position k
OutCell(r, k) == frame_out.df.rows[r][k]

\* C11: process_dataframe leaves its input frame as it was; the returned frame
\* starts with the original columns, every row holding its original cells; and
\* no column added after them carries the label of an original column other
\* than the tag column, so a parsed field of such a name is dropped and the
\* original value is the only one under that label.
C11_OriginalsKept ==
  frame_pc = "done" /\ frame_out.exc = "" =>
    LET width == Len(InColumns)
        out   == frame_out.df
    IN  /\ SubSeq(out.columns, 1, width) = InColumns
        /\ Len(out.rows) = Len(frame_in.df.rows)
        /\ \A r \in DOMAIN out.rows : SubSeq(out.rows[r], 1, width) = frame_in.df.rows[r]
        /\ \A k \in (width + 1)..Len(out.columns) :
             HasColumn(frame_in.df, out.columns[k]) => out.columns[k] = FrameTagColumn

C11_InputNotMutated == [][frame_in' = frame_in]_vars

C11_MergePrecedence == []C11_OriginalsKept /\ C11_InputNotMutated

\* a frame with an Environment column whose tags yield an Environment too was
\* processed: the only Environment of the result is the original one
C11_Witness ==
  /\ frame_pc = "done"
  /\ InColumns = <<TAG_COLUMN, sEnvironment>>
  /\ frame_in.df.rows = << <<PyStr(<<"e","n","v",":","p">>), PyInt(1)>> >>
  /\ frame_out.df.columns = <<TAG_COLUMN, sEnvironment, sDate>>
  /\ OutCell(1, 2) = PyInt(1)

\* C12: for every input schema and every record, the returned frame has a Date
\* field and it equals the date_value process_dataframe was given.
C12_DateInjected ==
  frame_pc = "done" /\ frame_out.exc = "" =>
    /\ HasColumn(frame_out.df, sDate)
    /\ \A r \in DOMAIN frame_out.df.rows :
         \A k \in DOMAIN frame_out.df.columns :
           frame_out.df.columns[k] = sDate => OutCell(r, k) = frame_in.date_value

(***************************************************************************)
(* C13.  Under SpecMongo: the sheet has a Cost column and some rows' tags  *)
(* also hold a cost.                                                       *)
(***************************************************************************)
\* the cells of a column, one per row
ColumnCells(df, col) == [r \in DOMAIN df.rows |-> df.rows[r][ColumnLoc(df, col)]]

\* the labels equal to col
Occurrences(df, col) == { k \in DOMAIN df.columns : df.columns[k] = col }

\* a null cell is stored as None
Stored(v) == IF IsNa(v) THEN PyNone ELSE v

\* the rows of the sheet whose tags yield a Cost field
TagsYieldCost(df) ==
  { r \in DOMAIN df.rows :
      DictHas(parse_tags(df.rows[r][ColumnLoc(df, TAG_COLUMN)]).result, sCost) }

\* C13: when the sheet has a Cost column, the enriched frame has exactly one
\* Cost column and it holds the sheet's own Cost cells, and the cost of every
\* prepared document is the sheet's own Cost cell of its row, also for the
\* rows whose tags yield a Cost of their own.
C13_OriginalCostWins ==
  (mongo_pc \in {"prepare", "insert", "done"} /\ HasColumn(mongo_in.df, sCost)) =>
    /\ Cardinality(Occurrences(mongo_df, sCost)) = 1
    /\ ColumnCells(mongo_df, sCost) = ColumnCells(mongo_in.df, sCost)
    /\ mongo_pc # "prepare" =>
         \A r \in DOMAIN documents :
           documents[r].cost = Stored(mongo_in.df.rows[r][ColumnLoc(mongo_in.df, sCost)])

\* a stored document whose row had the cost 1 in its Cost column and a cost
\* of 5 in its tags
C13_Witness ==
  /\ mongo_pc = "done"
  /\ HasColumn(mongo_in.df, sCost)
  /\ 1 \in TagsYieldCost(mongo_in.df)
  /\ mongo_in.df.rows[1][ColumnLoc(mongo_in.df, sCost)] = PyInt(1)
  /\ documents[1].cost = PyInt(1)

(***************************************************************************)
(* C14.  Under SpecRun: the sheet written by a run that returned True.     *)
(***************************************************************************)
\* the fields parse_tags finds in the tags of sheet data row r
RowFields(file, r) ==
  DictKeys(parse_tags(file.rows[r][ColumnLoc(DataFrame(file.rows, file.header), TAG_COLUMN)]).result)

\* the rows of df have one cell per label and no label occurs twice
Rectangular(df) ==
  /\ ~HasDuplicateColumns(df)
  /\ \A r \in DOMAIN df.rows : Len(df.rows[r]) = Len(df.columns)

\* the labels of df under which row r has a null (a blank, once written)
NullFields(df, r) ==
  { df.columns[k] : k \in { j \in DOMAIN df.columns :
                              IsNa(df.rows[r][j]) \/ df.rows[r][j] = PyStr(<<>>) } }

\* the labels the enrichment added to the sheet's own
AddedFields(df, file) == Range(df.columns) \ Range(file.header)

\* C14: after a run that returned True, the combined frame and the sheet
\* written from it have one row per data row of the input, every row has
\* exactly the labels of the column union, once each, and a label added by
\* the enrichment is null in a row exactly when that row's tags did not
\* contain the field.
C14_SchemaRectangular ==
  (run_pc = "done" /\ run_result = "True") =>
    LET combined == ConcatRows(processed_chunks).df
    IN  /\ Rectangular(combined) /\ Rectangular(output_file)
        /\ output_file.columns = combined.columns
        /\ Len(combined.rows) = Len(input_file.rows)
        /\ Len(output_file.rows) = Len(input_file.rows)
        /\ \A r \in DOMAIN input_file.rows :
             /\ AddedFields(combined, input_file) \ RowFields(input_file, r)
                  = AddedFields(combined, input_file) \cap NullFields(combined, r)
             /\ AddedFields(combined, input_file) \cap NullFields(output_file, r)
                  = AddedFields(combined, input_file) \cap NullFields(combined, r)

\* a finished run over two batches whose records have different fields: the
\* first row has an Environment and no Owner, the second an Owner and no
\* Environment
C14_Witness ==
  /\ run_pc = "done" /\ run_result = "True"
  /\ Len(processed_chunks) = 2
  /\ processed_chunks[1].columns # processed_chunks[2].columns
  /\ RowFields(input_file, 1) = {sEnvironment}
  /\ RowFields(input_file, 2) = {sOwner}
  /\ NullFields(output_file, 1) = {sOwner}
  /\ NullFields(output_file, 2) = {sEnvironment}

(***************************************************************************)
(* C15.  Under SpecRun: the outcome of the run against the outcome of the  *)
(* pipeline for every chunk size.                                          *)
(***************************************************************************)
\* the records of a frame: for each row its set of <<label, cell>> pairs
Records(df) ==
  [r \in DOMAIN df.rows |-> { <<df.columns[k], df.rows[r][k]>> : k \in DOMAIN df.columns }]

\* two outcomes [exc, df] with the same labels and the same records, or both
\* a failure
SameOutcome(a, b) ==
  /\ (a.exc = "") = (b.exc = "")
  /\ a.exc = "" =>
       /\ Range(a.df.columns) = Range(b.df.columns)
       /\ Records(a.df) = Records(b.df)

ChunkSizes == 1..MaxChunk

RunDates == {PyNone, PyStr(<<"2","0","2","4","-","0","1">>)}

\* C15: once every chunk of the sheet is processed, the combined frame of
\* the run has the same labels and the same records as the pipeline gives
\* for every other chunk size, with and without a date for the run; and
\* for any two chunk sizes the pipeline gives the same labels and records.
\* Labels are compared as a set: their order is not part of the claim.
C15_BatchInvariance ==
  (run_pc \in {"write", "done"} /\ validate_excel_file(input_file)) =>
    /\ \A cs \in ChunkSizes :
         run_exc.raised_by # "write_chunks_to_excel" /\ (run_pc = "done" => write_ok) =>
           SameOutcome(IF run_exc = NoExc /\ processed_chunks # <<>>
                       THEN ConcatRows(processed_chunks)
                       ELSE [exc |-> "ValueError", df |-> NoFrame],
                       Pipeline(input_file, cs, PyNone))
    /\ \A cs \in ChunkSizes, d \in RunDates :
         SameOutcome(Pipeline(input_file, chunk_size, d), Pipeline(input_file, cs, d))

(***************************************************************************)
(* C16.  Under SpecRun: progress holds the arguments of the calls of       *)
(* progress_callback, in order.                                            *)
(***************************************************************************)
\* the number of rows of the first k chunks
RECURSIVE RowsOfFirst(_, _)
RowsOfFirst(chunks, k) ==
  IF k = 0 THEN 0 ELSE RowsOfFirst(chunks, k - 1) + Len(chunks[k].rows)

\* the number of chunks the generator has yielded
Pulled == (current_row - 2) \div chunk_size

C16_ProgressCounts ==
  /\ Len(progress) = Len(processed_chunks)
  /\ run_pc = "pull" => Pulled = Len(processed_chunks)
  /\ run_pc = "process" => Pulled = Len(processed_chunks) + 1
  /\ \A k \in DOMAIN progress :
       /\ progress[k][1] = RowsOfFirst(processed_chunks, k)
       /\ progress[k][2] = Len(input_file.rows)
       /\ k > 1 => progress[k - 1][1] < progress[k][1]
  /\ (run_pc \in {"write", "done"} /\ progress # <<>>) =>
       progress[Len(progress)][1] = progress[Len(progress)][2]

C16_OneCallPerBatch ==
  [][ /\ chunk' # chunk =>
           run_pc = "pull" /\ run_pc' = "process" /\ Len(progress) = Pulled
      /\ progress' # progress =>
           /\ run_pc = "process"
           /\ Len(progress') = Len(progress) + 1
           /\ SubSeq(progress', 1, Len(progress)) = progress
           /\ Len(processed_chunks') = Len(processed_chunks) + 1 ]_vars

\* C16: a chunk is pulled only when every chunk pulled before it has been
\* processed and reported; each processed chunk adds exactly one progress
\* call; call k reports the number of rows of the first k chunks (so the
\* count strictly increases) and the number of data rows of the sheet; and
\* when the loop is over the last call reported count = total.
C16_PullProcessReport == []C16_ProgressCounts /\ C16_OneCallPerBatch

\* a finished run over two chunks of one row: the calls were (1, 2), (2, 2)
C16_Witness ==
  /\ run_pc = "done" /\ run_result = "True"
  /\ progress = << <<1, 2>>, <<2, 2>> >>

(***************************************************************************)
(* C17.  Under SpecRun: output_file is the sheet at the output path.       *)
(***************************************************************************)
\* every data row of the sheet is in a processed chunk
AllProcessed ==
  /\ RowsOfFirst(processed_chunks, Len(processed_chunks)) = Len(input_file.rows)
  /\ current_row > MaxRow(input_file)

C17_NothingWrittenEarly ==
  /\ run_exc.raised_by = "process_dataframe" => output_file = NoFrame
  /\ output_file # NoFrame => run_pc = "done" /\ run_exc = NoExc /\ AllProcessed

C17_WrittenOnce ==
  [][output_file' # output_file =>
       run_pc = "write" /\ output_file = NoFrame /\ AllProcessed /\ run_exc = NoExc]_vars

\* C17: while chunks are pulled and processed, and after a run that
\* process_dataframe aborted, nothing is at the output path; the output is
\* written in one step, after every data row of the sheet has been processed
\* without error.
C17_NoPartialOutput == []C17_NothingWrittenEarly /\ C17_WrittenOnce

\* a run aborted while its first chunk was processed, the output path being
\* writable: nothing was written
C17_Witness ==
  /\ run_pc = "done"
  /\ chunk # NoFrame
  /\ processed_chunks = <<>>
  /\ run_exc = [name |-> "ValueError", raised_by |-> "process_dataframe"]
  /\ write_ok
  /\ output_file = NoFrame

(***************************************************************************)
(* C18.  Under SpecMongo: the statistics returned after a batch was        *)
(* rejected.                                                               *)
(***************************************************************************)
\* C18: when insert_many has failed for some batch, the insert does not
\* report success.
C18_BatchFailureSurfaced ==
  (mongo_pc = "done" /\ failed_inserts > 0) => ~mongo_result.success

(***************************************************************************)
(* C19, C20.  Under SpecParse: the keys of the map parse_tags returns.     *)
(***************************************************************************)
\* the three fields the tests look up
FixedFields == {sApplicationName, sEnvironment, sOwner}

\* the tag cell is a plain list of key:value items separated by ',' or ';'
IsPlainPairList ==
  /\ tag_src.gen \in {"items", "alias"}
  /\ tag_src.items # <<>>
  /\ \A i \in DOMAIN tag_src.items : tag_src.items[i].kind = "kv"
  /\ tag_src.sep # <<"|">>
  /\ ~tag_src.brace /\ tag_src.enc = "plain"

AliasField(key) ==
  CASE key = <<"e","n","v">> -> sEnvironment
    [] key = <<"o","w","n","e","r","_","n","a","m","e">> -> sOwner
    [] OTHER -> sApplicationName

\* C20: for tags made of the keys app, application, env and owner_name, as a
\* ',' or ';' separated key:value list or as a JSON object, the map has the
\* field each key stands for: 'Application Name' for app and application,
\* 'Environment' for env, 'Owner' for owner_name.
C20_AliasesNormalized ==
  (parse_pc = "done" /\ tag_src.gen = "alias") =>
    \A i \in DOMAIN tag_src.items :
      /\ DictHas(parse_out.result, AliasField(tag_src.items[i].key))
      /\ DictGet(parse_out.result, AliasField(tag_src.items[i].key)) = PyStr(<<"v">>)

(***************************************************************************)
(* C21.  Under SpecMongo: where the cost of a document comes from.         *)
(***************************************************************************)
\* the first non-null cost cell of sheet data row r, None if there is none
SheetCost(df, r) == Stored(CostValue(RowToDict(df.columns, df.rows[r], <<>>), CostKeys))

\* C21: the cost of every prepared document is the first non-null cost cell
\* of its row in the sheet (None if the sheet has none), whatever the row's
\* tags hold.
C21_CostFromSheetOnly ==
  mongo_pc \in {"insert", "done"} =>
    \A r \in DOMAIN documents : documents[r].cost = SheetCost(mongo_in.df, r)

(***************************************************************************)
(* C22.  Under SpecParse: the grammars whose detection predicate matches   *)
(* the string parse_tags dispatches on.                                    *)
(***************************************************************************)
\* the maps the matching grammars give for the string, each grammar run on
\* its own
MatchingGrammarResults(text) ==
  { RunStrategy(s, text).result :
      s \in { g \in {"json", "key_value", "pipe"} :
                \/ g = "json" /\ Strategy(text) = "json"
                \/ g = "key_value" /\ Contains(text, ":")
                \/ g = "pipe" /\ Contains(text, "|") } }

\* C22: when parse_tags returns the empty map for a string that is not
\* blank, every grammar whose detection predicate matches the string gives
\* the empty map for it.
C22_EmptyOnlyIfAllEmpty ==
  (parse_pc = "done" /\ parse_out.strategy # "empty" /\ parse_out.result = <<>>) =>
    \A m \in MatchingGrammarResults(parse_out.text) : m = <<>>

(***************************************************************************)
(* C23.  Under SpecParse: the JSON branch of parse_tags.                   *)
(***************************************************************************)
IsBraced(text) == StartsWith(text, "{") /\ EndsWith(text, "}")

\* the pairs of the object json.loads decodes the string to; <<>> when the
\* string is not brace-wrapped or json.loads raises
JsonPairs(text) ==
  IF IsBraced(text) /\ json_loads(text).ok
  THEN JsonStore(json_loads(text).val.items, <<>>)
  ELSE <<>>

\* C23: when the JSON branch is taken, parse_tags does not raise; if the
\* string is a JSON object with at least one pair the map is made of its
\* pairs, and otherwise (not brace-wrapped, a decode error, or no pair) the
\* map is what the escaped-quoted-pairs parser gives for the same string.
C23_JsonFallsBackToEscaped ==
  (parse_pc = "done" /\ parse_out.strategy = "json") =>
    /\ parse_out.exc = ""
    /\ parse_out.result =
         IF JsonPairs(parse_out.text) # <<>>
         THEN JsonPairs(parse_out.text)
         ELSE parse_escaped_key_value_format(parse_out.text)

\* a brace-wrapped string json.loads rejects was parsed by the escaped-pairs
\* parser, which found a pair
C23_Witness ==
  /\ parse_pc = "done" /\ parse_out.strategy = "json"
  /\ IsBraced(parse_out.text)
  /\ ~json_loads(parse_out.text).ok
  /\ parse_out.result # <<>>
  /\ parse_out.result = parse_escaped_key_value_format(parse_out.text)

(***************************************************************************)
(* C24, C25.  Under SpecParse: the values of the returned map.             *)
(***************************************************************************)
\* C24: the map the pipe-list parser returns has a key only for a field
\* that was assigned a value: no key of it holds None.
C24_MissingPipeFieldsAbsent ==
  (parse_pc = "done" /\ parse_out.strategy = "pipe") =>
    \A i \in DOMAIN parse_out.result : parse_out.result[i][2] # PyNone

\* C25: every value of the map parse_tags returns is a string without
\* leading or trailing whitespace.
C25_ValuesTrimmedStrings ==
  parse_pc = "done" =>
    \A i \in DOMAIN parse_out.result :
      /\ parse_out.result[i][2].kind = "str"
      /\ Strip(parse_out.result[i][2].s) = parse_out.result[i][2].s

(***************************************************************************)
(* C26.  Under SpecParse: the escaped-quoted-pairs parser on the pairs of  *)
(* the tag cell written in another order.                                  *)
(***************************************************************************)
\* the cell was written as comma-separated "key":"value" pairs
IsQuotedPairs ==
  /\ tag_src.gen = "items"
  /\ tag_src.enc = "plain"
  /\ ~tag_src.brace
  /\ tag_src.sep = <<",">>
  /\ tag_src.items # <<>>
  /\ \A i \in DOMAIN tag_src.items : tag_src.items[i].kind = "qpair"

Orders(n) ==
  { p \in [1..n -> 1..n] : \A i, j \in 1..n : i # j => p[i] # p[j] }

\* the string of the same pairs in the order p
Reordered(src, p) ==
  RenderBody([src EXCEPT !.items = [i \in DOMAIN src.items |-> src.items[p[i]]]])

\* the maps the escaped-quoted-pairs parser gives for the orders of the pairs
OrderResults ==
  { Range(parse_escaped_key_value_format(Reordered(tag_src, p))) :
      p \in Orders(Len(tag_src.items)) }

\* C26 as claimed: the escaped-quoted-pairs parser gives the same map for
\* every order of the pairs of the string.
C26_AnyOrderSameMap ==
  (parse_pc = "done" /\ IsQuotedPairs) => Cardinality(OrderResults) = 1

\* C26 for pairs whose keys normalize to different names: every order of
\* the pairs gives the same map, which is also the map parse_tags returned
\* for the cell when the cell holds no backslash.
C26_DistinctKeysAnyOrder ==
  (parse_pc = "done" /\ IsQuotedPairList) =>
    /\ OrderResults = { PairEntries }
    /\ ~Contains(tag_input.s, "\\") => Range(parse_out.result) = PairEntries

\* two pairs of different keys were parsed; written the other way round
\* they make another string
C26_Witness ==
  /\ parse_pc = "done" /\ IsQuotedPairList
  /\ Len(tag_src.items) = 2
  /\ Reordered(tag_src, <<2, 1>>) # Reordered(tag_src, <<1, 2>>)
  /\ Cardinality(Range(parse_out.result)) = 2
  /\ OrderResults = { Range(parse_out.result) }

(***************************************************************************)
(* C27.  Under SpecParse: a field that the tags yield more than once.      *)
(***************************************************************************)
\* the canonical name of item i of the tag cell
ItemField(i) == format_column_name(Strip(tag_src.items[i].key))

\* the last item of the cell with the canonical name of item i
LastItemOf(i) ==
  CHOOSE j \in DOMAIN tag_src.items :
    /\ ItemField(j) = ItemField(i)
    /\ \A k \in DOMAIN tag_src.items : k > j => ItemField(k) # ItemField(i)

\* for a cell written as a list of "key":"value" pairs or of key:value
\* items: the keys of the map are the canonical names of the items, and each
\* name holds the trimmed value of the last item of that name in the cell
C27_LastItemWins ==
  (/\ parse_pc = "done"
   /\ \/ IsQuotedPairs /\ ~Contains(tag_input.s, "\\")
      \/ IsPlainPairList) =>
    /\ DictKeys(parse_out.result) = { ItemField(i) : i \in DOMAIN tag_src.items }
    /\ \A i \in DOMAIN tag_src.items :
         DictGet(parse_out.result, ItemField(i))
           = PyStr(Strip(tag_src.items[LastItemOf(i)].value))

\* the "key":"value" matches of the string the escaped-pairs parser was given
PairMatches == FindAllPairs(parse_out.text, 1)

\* whenever the escaped-pairs parser made the map: each canonical name of a
\* match holds the trimmed value of the last match of that name
C27_LastMatchWins ==
  (parse_pc = "done" /\ parse_out.strategy = "json" /\ JsonPairs(parse_out.text) = <<>>) =>
    \A i \in DOMAIN PairMatches :
      \E j \in DOMAIN PairMatches :
        /\ format_column_name(Strip(PairMatches[j][1])) = format_column_name(Strip(PairMatches[i][1]))
        /\ \A k \in DOMAIN PairMatches :
             k > j => format_column_name(Strip(PairMatches[k][1]))
                        # format_column_name(Strip(PairMatches[i][1]))
        /\ DictGet(parse_out.result, format_column_name(Strip(PairMatches[i][1])))
             = PyStr(Strip(PairMatches[j][2]))

\* C27: no key occurs twice in the map parse_tags returns, and a field the
\* tags yield more than once (a repeated key, or keys such as env and
\* Environment or ENV of one canonical name) holds the value of the last such
\* pair of the string.
C27_LastWriteWins ==
  /\ parse_pc = "done" =>
       \A i, j \in DOMAIN parse_out.result :
         i # j => parse_out.result[i][1] # parse_out.result[j][1]
  /\ C27_LastItemWins
  /\ C27_LastMatchWins

\* 'env:p,ENV:q' or 'env:p;ENV:q' was parsed: one Environment, the later one
C27_Witness ==
  /\ parse_pc = "done" /\ IsPlainPairList
  /\ Len(tag_src.items) = 2
  /\ tag_src.items[1].key = <<"e","n","v">> /\ tag_src.items[1].value = <<"p">>
  /\ tag_src.items[2].key = <<"E","N","V">> /\ tag_src.items[2].value = <<"q">>
  /\ parse_out.result = << <<sEnvironment, PyStr(<<"q">>)>> >>

(***************************************************************************)
(* C28.  Under SpecRun: the chunks read_excel_in_chunks yields.            *)
(***************************************************************************)
\* all the chunks of the sheet, for the chunk size of the run
YieldedChunks == read_excel_in_chunks(input_file, chunk_size, 2)

\* C28: the chunks the generator yields each have the sheet's header and
\* between 1 and chunk_size rows; their rows, one chunk after the other, are
\* the data rows of the sheet in sheet order, each once; the chunk under
\* processing is the one of that position; and when the generator has
\* ended, every chunk has been yielded.
C28_ChunksPartitionRows ==
  run_pc # "idle" =>
    /\ \A i \in DOMAIN YieldedChunks :
         /\ YieldedChunks[i].columns = input_file.header
         /\ Len(YieldedChunks[i].rows) >= 1
         /\ Len(YieldedChunks[i].rows) <= chunk_size
    /\ Flatten([i \in DOMAIN YieldedChunks |-> YieldedChunks[i].rows]) = input_file.rows
    /\ run_pc = "process" => Pulled \in DOMAIN YieldedChunks /\ chunk = YieldedChunks[Pulled]
    /\ run_pc = "write" => Pulled = Len(YieldedChunks) /\ current_row > MaxRow(input_file)

\* the second chunk of a two-row sheet read with chunk size 1 is under
\* processing: it is the sheet's second data row
C28_Witness ==
  /\ run_pc = "process"
  /\ chunk_size = 1 /\ Len(input_file.rows) = 2
  /\ Pulled = 2
  /\ chunk.rows = << input_file.rows[2] >>
  /\ input_file.rows[1] # input_file.rows[2]

(***************************************************************************)
(* C29.  Under SpecFrame: the labels of the frame process_dataframe        *)
(* returns.                                                                *)
(***************************************************************************)
\* C29: no label occurs twice among the columns of the returned frame.
C29_LabelsDistinct ==
  (frame_pc = "done" /\ frame_out.exc = "") => ~HasDuplicateColumns(frame_out.df)

(***************************************************************************)
(* C30.  Under SpecWrite: the progress the two writer functions report.    *)
(***************************************************************************)
\* a sequence of numbers that never decreases
NonDecreasing(calls) == \A i, j \in DOMAIN calls : i < j => calls[i] <= calls[j]

\* the write has finished: the workbook is closed and the sheet is written
WriteFinished == write_pc = "done" /\ write_out.exc = "" /\ write_out.file # NoFrame

\* the rows_written values start at 0, never decrease, never exceed
\* total_rows and, when the write has finished, end at total_rows
C30_RowsMonotoneComplete ==
  /\ row_calls # <<>> => row_calls[1] = 0
  /\ NonDecreasing(row_calls)
  /\ \A i \in DOMAIN row_calls : row_calls[i] <= Len(combined_df.rows)
  /\ WriteFinished => row_calls[Len(row_calls)] = Len(combined_df.rows)

\* the percentages stay within 0..100 and never decrease
C30_PercentMonotone ==
  /\ NonDecreasing(pct_calls)
  /\ \A i \in DOMAIN pct_calls : pct_calls[i] \in 0..100

\* 100 is reported only once the write has finished
C30_HundredOnlyWhenFinished ==
  (\E i \in DOMAIN pct_calls : pct_calls[i] = 100) => WriteFinished

\* C30: the writer's rows_written reports start at 0, never decrease, never
\* exceed total_rows and end at total_rows; the percentages stay within
\* 0..100, never decrease, and reach 100 only after the write has finished.
C30_WriteProgress ==
  C30_RowsMonotoneComplete /\ C30_PercentMonotone /\ C30_HundredOnlyWhenFinished

=============================================================================
